---- MODULE Spec2Model ----
(***************************************************************************)
(* Timestamp reconciliation of spikegadgets_to_nwb (convert_position.py)   *)
(* and the session driver (convert.py).                                    *)
(*                                                                         *)
(* numpy arrays are sequences (1-based here, 0-based in the source), a     *)
(* boolean mask is a sequence of BOOLEAN.  Every helper is computed the    *)
(* way the source computes it (np.insert, np.diff, scipy.ndimage.label,    *)
(* np.unique, np.isin), the claims are stated separately below.            *)
(*                                                                         *)
(* The specifications share the variables: Spec (the sequence-break        *)
(* detector), SpecPause (find_acquisition_timing_pause), SpecLag           *)
(* (estimate_camera_to_mcu_lag), SpecPos (get_position_timestamps,         *)
(* statement by statement, an exception ending the call at pc = "raised"), *)
(* SpecTrim (remove_acquisition_timing_pause_non_ptp), SpecDio             *)
(* (find_camera_dio_channel_per_epoch), SpecAdd (add_position) and         *)
(* SpecDriver (create_nwbs), with SpecRead (parse_dtype and                *)
(* read_trodes_datafile) and SpecCreate (_create_nwb, step by step, for    *)
(* several sessions in one process).                                       *)
(***************************************************************************)
EXTENDS Integers, Sequences, FiniteSets

VARIABLES
    pc,                               \* position of the driver of the specification
    trodes_time,                      \* video_timestamps.index (PosTimestamp)
    frame_count,                      \* video_timestamps.HWframeCount
    min_frame_jump,                   \* argument of find_large_frame_jumps
    is_repeat_timestamp,              \* result of detect_repeat_timestamps
    is_large_frame_jump,              \* result of find_large_frame_jumps
    non_repeat_timestamp_labels,      \* first result of detect_trodes_time_repeats_or_frame_jumps
    non_repeat_timestamp_labels_id,   \* second result of detect_trodes_time_repeats_or_frame_jumps
    kept_rows,                        \* rows of video_timestamps with label > 0 (indices into the input)
    relabel_id,                       \* ids of a second segmentation, run on the kept rows
    timestamps,                       \* argument of find_acquisition_timing_pause
    min_duration,                     \* its min_duration, in tenths of a second
    max_duration,                     \* its max_duration, in tenths of a second
    n_search,                         \* its n_search
    pause_mid_time,                   \* its result: a time, or the IndexError it raises
    camera_systime,                   \* argument of estimate_camera_to_mcu_lag
    dio_systime,                      \* argument of estimate_camera_to_mcu_lag
    n_breaks,                         \* argument of estimate_camera_to_mcu_lag
    camera_to_mcu_lag,                \* its result (twice the lag), or the error it raises
    ptp_enabled,                      \* argument of get_position_timestamps
    file_data,                        \* the records of the camera timestamps file
    position_tracking,                \* the records of the tracking file, when there is one
    rec_dci_timestamps,               \* argument of get_position_timestamps
    sample_count,                     \* argument of get_position_timestamps
    dio_camera_timestamps,            \* argument (and local) of get_position_timestamps
    video_timestamps,                 \* its table, one record per row
    is_valid_camera_time,             \* its mask of the rows found in sample_count
    corrected_camera_systime,         \* its concatenated per-segment corrected times
    raised,                           \* the exception that ended the call, if any
    pause_removed,                    \* what remove_acquisition_timing_pause_non_ptp returned
    time_series,                      \* behavioral_events.time_series: <<name, timestamps>> in registry order
    epoch_start,                      \* argument of find_camera_dio_channel_per_epoch
    epoch_end,                        \* argument of find_camera_dio_channel_per_epoch
    dio_found,                        \* its result: the ticks returned, or the ValueError raised
    session_df,                       \* add_position: the session's files, one entry per epoch
    nwb_epochs,                       \* nwb_file.epochs: <<>> until add_epochs has run
    behavioral_events,                \* the DIO registry add_position searches
    position_ptp_enabled,             \* argument ptp_enabled of add_position
    epoch_index,                      \* position of the loop in session_df.epoch.unique()
    position_tracking_filepath,       \* local of add_position
    position_timestamps_filepath,     \* local of add_position
    dio_camera_timestamps_epoch,      \* local of add_position
    position_df,                      \* local of add_position
    processing,                       \* nwb_file.processing: the series written so far
    add_position_raised,              \* the exception add_position ended with
    n_workers,                        \* argument of create_nwbs
    session_raises,                   \* per session of file_info: does _create_nwb raise
    conversions,                      \* per session: "not run", "True" or "Exception"
    next_session,                     \* position of the serial loop or of the result loop
    printed,                          \* the sessions whose exception was printed
    create_nwbs_raised,               \* the exception create_nwbs ended with
    trodes_file,                      \* a trodes binary file: its first line and its fields setting
    parsed_dtype,                     \* what parse_dtype returned or raised
    datafile,                         \* what read_trodes_datafile returned or raised
    n_sessions,                       \* number of sessions _create_nwb is called for, in turn
    create_session,                   \* the session _create_nwb is running for (0: none yet)
    create_step,                      \* position of _create_nwb in CreateSteps
    nwb_file,                         \* the steps that have returned in this call, in order
    logger_handlers,                  \* logging.getLogger("convert").handlers
    log_files,                        \* per session: the lines of <animal><date>_convert.log
    stderr,                           \* the lines the stream handlers wrote
    output_files,                     \* per session: state of <output_dir>/<animal><date>.nwb
    create_outcome                    \* per session: "returned" or the step that raised

segVars == <<trodes_time, frame_count, min_frame_jump, is_repeat_timestamp,
             is_large_frame_jump, non_repeat_timestamp_labels,
             non_repeat_timestamp_labels_id, kept_rows, relabel_id>>

pauseVars == <<timestamps, min_duration, max_duration, n_search, pause_mid_time>>

lagVars == <<camera_systime, dio_systime, n_breaks, camera_to_mcu_lag>>

posVars == <<ptp_enabled, file_data, position_tracking, rec_dci_timestamps, sample_count,
             dio_camera_timestamps, video_timestamps, is_valid_camera_time,
             corrected_camera_systime, raised>>

trimVars == <<pause_removed>>

dioVars == <<time_series, epoch_start, epoch_end, dio_found>>

addVars == <<session_df, nwb_epochs, behavioral_events, position_ptp_enabled, epoch_index,
             position_tracking_filepath, position_timestamps_filepath,
             dio_camera_timestamps_epoch, position_df, processing, add_position_raised>>

driverVars == <<n_workers, session_raises, conversions, next_session, printed,
                create_nwbs_raised>>

readVars == <<trodes_file, parsed_dtype, datafile>>

createVars == <<n_sessions, create_session, create_step, nwb_file, logger_handlers,
                log_files, stderr, output_files, create_outcome>>

\* the variables of the specifications that follow the first four
restVars == <<trimVars, dioVars, addVars, driverVars, readVars, createVars>>

vars == <<pc, segVars, pauseVars, lagVars, posVars, restVars>>

\* what the actions of one group of variables leave alone
otherThanSeg == <<pauseVars, lagVars, posVars, restVars>>
otherThanPause == <<segVars, lagVars, posVars, restVars>>
otherThanLag == <<segVars, pauseVars, posVars, restVars>>

\* the inputs of get_position_timestamps and the variables it never touches
posInputs == <<ptp_enabled, file_data, position_tracking, rec_dci_timestamps, sample_count>>
otherThanPos == <<trodes_time, min_frame_jump, is_repeat_timestamp, is_large_frame_jump,
                  kept_rows, relabel_id, timestamps, min_duration, max_duration, n_search,
                  dio_systime, restVars>>

\* the variables a specification does not use keep these values
SegIdle ==
    /\ trodes_time = <<>>
    /\ frame_count = <<>>
    /\ min_frame_jump = 0
    /\ is_repeat_timestamp = <<>>
    /\ is_large_frame_jump = <<>>
    /\ non_repeat_timestamp_labels = <<>>
    /\ non_repeat_timestamp_labels_id = <<>>
    /\ kept_rows = <<>>
    /\ relabel_id = <<>>

PauseIdle ==
    /\ timestamps = <<>>
    /\ min_duration = 0
    /\ max_duration = 0
    /\ n_search = 0
    /\ pause_mid_time = [kind |-> "none", value |-> 0]

LagIdle ==
    /\ camera_systime = <<>>
    /\ dio_systime = <<>>
    /\ n_breaks = 0
    /\ camera_to_mcu_lag = [kind |-> "none", twice |-> 0]

NotRaised == [kind |-> "none", line |-> 0]

PosIdle ==
    /\ ptp_enabled = FALSE
    /\ file_data = <<>>
    /\ position_tracking = [present |-> FALSE, data |-> <<>>]
    /\ rec_dci_timestamps = <<>>
    /\ sample_count = <<>>
    /\ dio_camera_timestamps = <<>>
    /\ video_timestamps = <<>>
    /\ is_valid_camera_time = <<>>
    /\ corrected_camera_systime = <<>>
    /\ raised = NotRaised

NothingRemoved ==
    [called |-> FALSE, dio_systime |-> <<>>, frame_count |-> <<>>,
     is_valid_camera_time |-> <<>>, camera_systime |-> <<>>]

TrimIdle == pause_removed = NothingRemoved

NothingFound == [kind |-> "none", message |-> "", timestamps |-> <<>>]

DioIdle ==
    /\ time_series = <<>>
    /\ epoch_start = 0
    /\ epoch_end = 0
    /\ dio_found = NothingFound

\* a local variable of add_position before its first assignment
Unbound == [kind |-> "unbound", epoch |-> 0]

\* the table get_position_timestamps has not returned yet
NoTable == [columns |-> <<>>, index |-> <<>>, video_frame_ind |-> <<>>,
            non_repeat_timestamp_labels |-> <<>>]

\* nwb_file.processing without any position output; created: the modules made by
\* create_processing_module in the loop of add_position, one entry per call;
\* behavior: the containers added to the behavior module, one entry per add
NoSeries == [position |-> <<>>, position_frame_index |-> <<>>,
             non_repeat_timestamp_labels |-> <<>>, behavior |-> <<>>,
             created |-> <<>>]

AddIdle ==
    /\ session_df = <<>>
    /\ nwb_epochs = <<>>
    /\ behavioral_events = <<>>
    /\ position_ptp_enabled = FALSE
    /\ epoch_index = 0
    /\ position_tracking_filepath = Unbound
    /\ position_timestamps_filepath = Unbound
    /\ dio_camera_timestamps_epoch = NothingFound
    /\ position_df = NoTable
    /\ processing = NoSeries
    /\ add_position_raised = NotRaised

DriverIdle ==
    /\ n_workers = 0
    /\ session_raises = <<>>
    /\ conversions = <<>>
    /\ next_session = 0
    /\ printed = {}
    /\ create_nwbs_raised = NotRaised

NotCalled == [kind |-> "none", dtype |-> <<>>]

ReadIdle ==
    /\ trodes_file = [first_line |-> <<>>, has_fields |-> FALSE, fields |-> <<>>]
    /\ parsed_dtype = NotCalled
    /\ datafile = NotCalled

CreateIdle ==
    /\ n_sessions = 0
    /\ create_session = 0
    /\ create_step = 0
    /\ nwb_file = <<>>
    /\ logger_handlers = <<>>
    /\ log_files = <<>>
    /\ stderr = <<>>
    /\ output_files = <<>>
    /\ create_outcome = <<>>

RestIdle == TrimIdle /\ DioIdle /\ AddIdle /\ DriverIdle /\ ReadIdle /\ CreateIdle

-----------------------------------------------------------------------------
(* Bounds of the inputs *)

\* longest array of the family with free values (covers the empty array)
MaxShortLen == 3
\* longest array of the family built from per-sample steps
MaxSegLen == 8

\* free values: differences 0, 15 (= the default threshold), 16, 31 and their negatives
ShortVals == {0, 15, 31}
\* per-sample steps <<advance of the Trodes time index, advance of the frame counter>>:
\* a repeated time index, a regular sample, a 20-frame jump
SampleSteps == {<<0, 1>>, <<1, 1>>, <<1, 20>>}
\* thresholds passed to find_large_frame_jumps: its default and a small one
JumpThresholds == {1, 15}

\* longest array passed to find_acquisition_timing_pause
MaxPauseLen == 4
\* gaps between its successive timestamps, in model nanoseconds (0.4 s, 0.5 s, 0.9 s,
\* 1.0 s, 1.1 s): on, inside and beyond the bounds of the duration windows
PauseGaps == {4, 5, 9, 10, 11}
\* the (min_duration, max_duration) windows passed, in tenths of a second: the default
\* (0.4, 1.0) and the (0.4, 1.1) of test_find_acquisition_timing_pause
DurationWindows == {<<4, 10>>, <<4, 11>>}

\* longest array passed to estimate_camera_to_mcu_lag
MaxLagLen == 3
\* values of its camera_systime and dio_systime arrays
CameraVals == {10, 20, 40}
DioVals == {0, 5}
\* values of its n_breaks
BreakCounts == {0, 1, 2}

\* most records in the camera timestamps file
MaxPosLen == 7
\* advance of PosTimestamp from one record to the next: a repeat, a regular sample
TrodesSteps == {0, 1}
\* first raw HWframeCount: far from and right before the wrap of the 16-bit counter
FrameStarts == {0, 65534}
\* HWTimestamp of the first record and regular spacing of the records, model nanoseconds
HwClocks == {<<0, 1>>}
\* length of the one longer gap a file may hold (0.5 s, 1.5 s)
HwPauseGaps == {5, 15}
\* times of the records of a tracking file: none, one per sample, out of order
TrackingTimes == {<<>>, <<0, 1, 2>>, <<1, 0, 1>>}
\* sample_count arrays: every sample, one sample missing, a short recording
SampleCounts == {<<0, 1, 2, 3, 4, 5, 6, 7>>, <<0, 1, 3, 4, 5, 6, 7>>, <<0, 1, 2>>}
\* rec_dci_timestamps: <<time of sample 0, time per sample>>, model nanoseconds
RecClocks == {<<10, 2>>}
\* most camera ticks on the DIO channel, time of the first one, gaps between ticks
MaxDioLen == 3

\* most samples and most DIO ticks handed to remove_acquisition_timing_pause_non_ptp
MaxTrimLen == 4
MaxTrimDioLen == 2
\* the times in its arrays and its pause_mid_time: a time, and -1 s for no pause
TrimTimes == {50, 150, 250}
TrimPauses == {150, -10}

\* most DIO channels in the registry
MaxChannels == 3
\* channel names, a name being the sequence of its pieces; the first two contain the
\* marker "camera ticks", the others a differently cased and a reversed one
ChannelNames == {<<"camera", " ", "ticks">>, <<"ECU_", "camera", " ", "ticks", "2">>,
                 <<"Camera", " ", "ticks">>, <<"ticks", " ", "camera">>}
\* number of ticks of a channel, tick k at time k: none, and around the threshold
TickCounts == {0, 100, 101, 102}
\* epoch bounds <<epoch_start, epoch_end>>: beyond the ticks, on the first and on the
\* last tick of a channel of 101, and cutting the first tick off
EpochBounds == {<<0, 200>>, <<1, 101>>, <<2, 101>>, <<2, 102>>}

\* most epochs of a session
MaxEpochs == 2
\* number of frames in an epoch's camera timestamps file
FrameCounts == {1, 2}
\* number of ticks of the DIO channels of a session
SessionTickCounts == {100, 102}

\* most sessions (date, animal) in file_info
MaxSessions == 4
\* most workers asked for
MaxWorkers == 3

\* most fields in the fields setting of a trodes file
MaxFields == 2
\* the type text of a field, as its pieces between the "*": a type, N*type, type*N, an
\* unknown name in the three forms, two names, a numpy function, a numpy type that is
\* not numeric
TypeTexts == {<<"uint32">>, <<"4", "float64">>, <<"float64", "4">>,
              <<"nonexisttype">>, <<"4", "nonexisttype">>, <<"nonexisttype", "4">>,
              <<"float64", "int32">>, <<"sum">>, <<"str_">>}
\* the first line of a file, as its pieces: the marker with a line end, with a carriage
\* return, with blanks around it, another text, a differently cased marker, no line
FirstLines == {<<"<Start settings>", "\n">>, <<"<Start settings>", "\r", "\n">>,
               <<" ", "<Start settings>", " ", "\n">>, <<"Incorrect content", "\n">>,
               <<"<start settings>", "\n">>, <<>>}
DioStarts == {9}
DioGaps == {2, 5}

-----------------------------------------------------------------------------
(* numpy / scipy primitives *)

\* a slice bound clipped to an array of n elements
Clip(x, n) == IF x < 0 THEN 0 ELSE IF x > n THEN n ELSE x

\* the elements l+1 .. h of a (1-based), empty when h <= l
Elements(a, l, h) == IF h <= l THEN <<>> ELSE [i \in 1..(h - l) |-> a[l + i]]

\* a[lo:hi] of a 0-based array: elements lo .. hi-1, the bounds clipped to the array
Slice(a, lo, hi) == Elements(a, Clip(lo, Len(a)), Clip(hi, Len(a)))

\* a[:-1]
AllButLast(a) == Slice(a, 0, Len(a) - 1)

\* a[1:]
AllButFirst(a) == Slice(a, 1, Len(a))

\* np.insert(a, 0, v)
np_insert0(a, v) == <<v>> \o a

\* x - y, x >= y, x > c, x | y, ~x of equally long arrays, element by element
np_subtract(x, y) == [i \in 1..Len(x) |-> x[i] - y[i]]
np_greater_equal(x, y) == [i \in 1..Len(x) |-> x[i] >= y[i]]
np_greater(x, c) == [i \in 1..Len(x) |-> x[i] > c]
np_logical_or(x, y) == [i \in 1..Len(x) |-> x[i] \/ y[i]]
np_logical_not(x) == [i \in 1..Len(x) |-> ~x[i]]

\* np.diff(a): a[1:] - a[:-1]
np_diff(a) == np_subtract(AllButFirst(a), AllButLast(a))

\* a[mask] with a boolean mask of the same length: the first n elements of a filtered
RECURSIVE BoolIndexUpTo(_, _, _)
BoolIndexUpTo(a, mask, n) ==
    IF n = 0 THEN <<>>
    ELSE IF mask[n] THEN Append(BoolIndexUpTo(a, mask, n - 1), a[n])
    ELSE BoolIndexUpTo(a, mask, n - 1)

BoolIndex(a, mask) == BoolIndexUpTo(a, mask, Len(a))

\* np.nonzero(mask)[0], 1-based
np_nonzero(mask) == BoolIndex([i \in 1..Len(mask) |-> i], mask)

\* the least element of a non-empty finite set of integers
MinOf(S) == CHOOSE x \in S : \A y \in S : x <= y

\* the ascending array of the elements of a finite set of integers
RECURSIVE SortedSeq(_)
SortedSeq(S) == IF S = {} THEN <<>> ELSE <<MinOf(S)>> \o SortedSeq(S \ {MinOf(S)})

\* np.unique(a)
np_unique(a) == SortedSeq({a[i] : i \in 1..Len(a)})

\* how often each element of u occurs in a
CountsOf(a, u) == [k \in 1..Len(u) |-> Cardinality({i \in 1..Len(a) : a[i] = u[k]})]

\* the counts of np.unique(a, return_counts=True)
np_unique_counts(a) == CountsOf(a, np_unique(a))

\* np.isin(x, arr) of one element
np_isin1(x, arr) == \E k \in 1..Len(arr) : arr[k] = x

\* a running count of the True samples in place of a count of the runs
label_mut(mask) ==
    [i \in 1..Len(mask) |->
        IF mask[i] THEN Cardinality({j \in 1..i : mask[j]}) ELSE 0]

\* scipy.ndimage.label(mask)[0] of a 1-d mask: the runs of True numbered from the left
label(mask) ==
    [i \in 1..Len(mask) |->
        IF mask[i]
        THEN Cardinality({j \in 1..i : mask[j] /\ (j = 1 \/ ~mask[j - 1])})
        ELSE 0]

-----------------------------------------------------------------------------
(* Sequence-break detector *)

\* np.insert(timestamps[:-1] >= timestamps[1:], 0, False)
detect_repeat_timestamps(ts) ==
    np_insert0(np_greater_equal(AllButLast(ts), AllButFirst(ts)), FALSE)

\* the comparison written as >=
find_large_frame_jumps_mut(fc, min_jump) ==
    np_insert0(np_greater(np_diff(fc), min_jump - 1), FALSE)

\* np.insert(np.diff(frame_count) > min_frame_jump, 0, False)
find_large_frame_jumps(fc, min_jump) ==
    np_insert0(np_greater(np_diff(fc), min_jump), FALSE)

\* default of the min_frame_jump parameter
DefaultMinFrameJump == 15

\* a run of flagged samples is a break when its count exceeds this
MinBreakCount == 2

\* lines 265-269: the ids of the flagged runs that count as breaks
BreakIds(ids, counts, min_count) ==
    BoolIndex(ids, [k \in 1..Len(ids) |-> ids[k] # 0 /\ counts[k] > min_count])

\* lines 270-272: is_repeat_timestamp[~np.isin(repeat_timestamp_labels, ids)] = False
ClearOutside(flagged, repeat_timestamp_labels, kept_ids) ==
    [i \in 1..Len(flagged) |->
        IF ~np_isin1(repeat_timestamp_labels[i], kept_ids) THEN FALSE ELSE flagged[i]]

\* lines 262-272, with the labels of the flagged runs
KeepBreaksOf(flagged, repeat_timestamp_labels, min_count) ==
    ClearOutside(flagged, repeat_timestamp_labels,
                 BreakIds(np_unique(repeat_timestamp_labels),
                          np_unique_counts(repeat_timestamp_labels), min_count))

\* lines 261-272, with the union of the two flag arrays
KeepBreaks(flagged, min_count) == KeepBreaksOf(flagged, label(flagged), min_count)

\* the mask of the samples inside kept breaks (is_repeat_timestamp after line 272)
BreakMaskWith(tt, fc, min_count) ==
    KeepBreaks(np_logical_or(detect_repeat_timestamps(tt),
                             find_large_frame_jumps(fc, DefaultMinFrameJump)),
               min_count)

\* the break test written as count > 1
BreakMask_off_by_one(tt, fc) == BreakMaskWith(tt, fc, MinBreakCount - 1)

\* every flagged sample kept as a break (the short runs are not un-flagged)
BreakMask_no_unflag(tt, fc) == BreakMaskWith(tt, fc, MinBreakCount - MinBreakCount)

BreakMask(tt, fc) == BreakMaskWith(tt, fc, MinBreakCount)

\* lines 275-278: the ids present among the labels, 0 excluded
PositiveIds(ids) == BoolIndex(ids, [k \in 1..Len(ids) |-> ids[k] # 0])

\* lines 275-280: the returned pair
LabelsAndIds(labels) == [labels |-> labels, ids |-> PositiveIds(np_unique(labels))]

\* detect_trodes_time_repeats_or_frame_jumps: [labels, ids]
detect_trodes_time_repeats_or_frame_jumps(tt, fc) ==
    LabelsAndIds(label(np_logical_not(BreakMask(tt, fc))))

\* video_timestamps.loc[video_timestamps.non_repeat_timestamp_labels > 0]: the rows kept
RowsWithPositiveLabel(labels) == np_nonzero(np_greater(labels, 0))

\* the values of column a at the given rows
Take(a, rows) == [k \in 1..Len(rows) |-> a[rows[k]]]

-----------------------------------------------------------------------------
(* Specification Spec: the sequence-break detector on bounded inputs *)

\* start plus the first n steps
RECURSIVE SumUpTo(_, _, _)
SumUpTo(start, steps, n) == IF n = 0 THEN start ELSE SumUpTo(start, steps, n - 1) + steps[n]

\* the running sums start, start + steps[1], ... (one value more than steps)
RunningSum(start, steps) == [i \in 1..(Len(steps) + 1) |-> SumUpTo(start, steps, i - 1)]

\* arrays of free values, the empty array included
ShortInputs ==
    \E n \in 0..MaxShortLen :
        /\ trodes_time \in [1..n -> ShortVals]
        /\ frame_count \in [1..n -> ShortVals]

\* arrays built from per-sample steps
StepInputs ==
    \E n \in 1..MaxSegLen :
        \E steps \in [1..(n - 1) -> SampleSteps] :
            /\ trodes_time = RunningSum(1, [i \in 1..(n - 1) |-> steps[i][1]])
            /\ frame_count = RunningSum(0, [i \in 1..(n - 1) |-> steps[i][2]])

Init ==
    /\ pc = "start"
    /\ (ShortInputs \/ StepInputs)
    /\ min_frame_jump = DefaultMinFrameJump
    /\ is_repeat_timestamp = <<>>
    /\ is_large_frame_jump = <<>>
    /\ non_repeat_timestamp_labels = <<>>
    /\ non_repeat_timestamp_labels_id = <<>>
    /\ kept_rows = <<>>
    /\ relabel_id = <<>>
    /\ PauseIdle
    /\ LagIdle
    /\ PosIdle
    /\ RestIdle

\* a call of detect_repeat_timestamps(trodes_time)
CallDetectRepeatTimestamps ==
    /\ pc = "start"
    /\ is_repeat_timestamp' = detect_repeat_timestamps(trodes_time)
    /\ pc' = "repeats"
    /\ UNCHANGED otherThanSeg
    /\ UNCHANGED <<trodes_time, frame_count, min_frame_jump, is_large_frame_jump,
                   non_repeat_timestamp_labels, non_repeat_timestamp_labels_id,
                   kept_rows, relabel_id>>

\* a call of find_large_frame_jumps(frame_count, min_frame_jump)
CallFindLargeFrameJumps ==
    /\ pc = "start"
    /\ \E m \in JumpThresholds :
        /\ min_frame_jump' = m
        /\ is_large_frame_jump' = find_large_frame_jumps(frame_count, m)
    /\ pc' = "jumps"
    /\ UNCHANGED otherThanSeg
    /\ UNCHANGED <<trodes_time, frame_count, is_repeat_timestamp,
                   non_repeat_timestamp_labels, non_repeat_timestamp_labels_id,
                   kept_rows, relabel_id>>

\* get_position_timestamps, lines 457-464: the segmentation of the timestamps file
CallDetectTrodesTimeRepeatsOrFrameJumps ==
    /\ pc = "start"
    /\ \E r \in {detect_trodes_time_repeats_or_frame_jumps(trodes_time, frame_count)} :
        /\ non_repeat_timestamp_labels' = r.labels
        /\ non_repeat_timestamp_labels_id' = r.ids
    /\ pc' = "labelled"
    /\ UNCHANGED otherThanSeg
    /\ UNCHANGED <<trodes_time, frame_count, min_frame_jump, is_repeat_timestamp,
                   is_large_frame_jump, kept_rows, relabel_id>>

\* get_position_timestamps, lines 465-468: the labels become a column (pandas raises
\* ValueError when their length is not the table's) and the label-0 rows are dropped
DropExcludedRows ==
    /\ pc = "labelled"
    /\ IF Len(non_repeat_timestamp_labels) = Len(trodes_time)
       THEN /\ kept_rows' = RowsWithPositiveLabel(non_repeat_timestamp_labels)
            /\ pc' = "filtered"
       ELSE /\ kept_rows' = kept_rows
            /\ pc' = "error"
    /\ UNCHANGED otherThanSeg
    /\ UNCHANGED <<trodes_time, frame_count, min_frame_jump, is_repeat_timestamp,
                   is_large_frame_jump, non_repeat_timestamp_labels,
                   non_repeat_timestamp_labels_id, relabel_id>>

\* the segmentation run again on the rows that were kept
Resegment ==
    /\ pc = "filtered"
    /\ relabel_id' = detect_trodes_time_repeats_or_frame_jumps(
                         Take(trodes_time, kept_rows), Take(frame_count, kept_rows)).ids
    /\ pc' = "relabelled"
    /\ UNCHANGED otherThanSeg
    /\ UNCHANGED <<trodes_time, frame_count, min_frame_jump, is_repeat_timestamp,
                   is_large_frame_jump, non_repeat_timestamp_labels,
                   non_repeat_timestamp_labels_id, kept_rows>>

Next ==
    \/ CallDetectRepeatTimestamps
    \/ CallFindLargeFrameJumps
    \/ CallDetectTrodesTimeRepeatsOrFrameJumps
    \/ DropExcludedRows
    \/ Resegment

Spec == Init /\ [][Next]_vars

-----------------------------------------------------------------------------
(* Claims about the sequence-break detector, stated from the input arrays *)

\* position i (1-based) of the input is a repeat or a large jump: i > 1 and
\* trodes_time[i-1] >= trodes_time[i] or frame_count[i] - frame_count[i-1] > 15
Flagged(i) ==
    /\ i > 1
    /\ i <= Len(trodes_time)
    /\ \/ trodes_time[i - 1] >= trodes_time[i]
       \/ frame_count[i] - frame_count[i - 1] > 15

\* the length of the maximal run of flagged positions that holds the flagged position i
RunLength(i) ==
    LET lo == CHOOSE a \in 1..i :
                  (\A j \in a..i : Flagged(j)) /\ ~Flagged(a - 1)
        hi == CHOOSE b \in i..(Len(trodes_time) + 1) :
                  (\A j \in i..b : Flagged(j)) /\ ~Flagged(b + 1)
    IN  hi - lo + 1

\* position i lies inside a break that is kept: a flagged run longer than 2
InKeptBreak(i) == Flagged(i) /\ RunLength(i) > 2

\* C1: detect_repeat_timestamps returns an array as long as its input (the empty
\* input included) whose element 0 is false and whose element i > 0 is true iff
\* timestamps[i-1] >= timestamps[i]
C1_RepeatFlagsMatchInput ==
    pc = "repeats" =>
        /\ Len(is_repeat_timestamp) = Len(trodes_time)
        /\ \A i \in 1..Len(trodes_time) :
               is_repeat_timestamp[i] <=> (i > 1 /\ trodes_time[i - 1] >= trodes_time[i])

C3_BreakIffRunLongerThanTwo ==
    pc = "labelled" =>
        /\ \A i \in 1..Len(non_repeat_timestamp_labels) :
               Flagged(i) =>
                   /\ (non_repeat_timestamp_labels[i] = 0) <=> (RunLength(i) > 2)
                   /\ (RunLength(i) <= 2) => (non_repeat_timestamp_labels[i] > 0)
        /\ (\A i \in 1..Len(non_repeat_timestamp_labels) :
                Flagged(i) => RunLength(i) <= 2)
           => /\ \A i \in 1..Len(non_repeat_timestamp_labels) :
                     non_repeat_timestamp_labels[i] = 1
              /\ non_repeat_timestamp_labels_id = <<1>>

\* one input with a flagged run of exactly 2 (kept in a segment) and one of exactly 3 (a break)
C3_Witness ==
    /\ pc = "labelled"
    /\ \E i, j \in 1..Len(trodes_time) :
        /\ Flagged(i) /\ RunLength(i) = 2 /\ non_repeat_timestamp_labels[i] > 0
        /\ Flagged(j) /\ RunLength(j) = 3 /\ non_repeat_timestamp_labels[j] = 0

\* C4: exactly the samples inside kept breaks have label 0; the k maximal spans of the
\* other samples carry 1..k from left to right (one label per span, the next span one
\* more); the ids are 1..k in ascending order, without 0
C4_SpansLabelledLeftToRight ==
    pc = "labelled" =>
        LET L == non_repeat_timestamp_labels
            n == Len(L)
            starts == {i \in 1..n : ~InKeptBreak(i) /\ (i = 1 \/ InKeptBreak(i - 1))}
        IN  /\ \A i \in 1..n : (L[i] = 0) <=> InKeptBreak(i)
            /\ \A i \in 1..n : (i \in starts /\ \A j \in 1..(i - 1) : InKeptBreak(j))
                                   => L[i] = 1
            /\ \A i \in 1..(n - 1) :
                   (~InKeptBreak(i) /\ ~InKeptBreak(i + 1)) => L[i + 1] = L[i]
            /\ \A i, j \in 1..n :
                   (i + 1 < j /\ ~InKeptBreak(i) /\ ~InKeptBreak(j)
                    /\ \A m \in (i + 1)..(j - 1) : InKeptBreak(m))
                       => L[j] = L[i] + 1
            /\ non_repeat_timestamp_labels_id = [m \in 1..Cardinality(starts) |-> m]

\* two spans around a kept break
C4_Witness ==
    /\ pc = "labelled"
    /\ non_repeat_timestamp_labels_id = <<1, 2>>
    /\ \E i \in 1..Len(trodes_time) : InKeptBreak(i) /\ non_repeat_timestamp_labels[i] = 0

\* in the kept rows, the row after each removed break is neither a repeat nor a large
\* jump with respect to the kept row before the break
NoBreakAcrossRemovedRows ==
    \A k \in 1..(Len(kept_rows) - 1) :
        kept_rows[k + 1] > kept_rows[k] + 1 =>
            /\ trodes_time[kept_rows[k]] < trodes_time[kept_rows[k + 1]]
            /\ frame_count[kept_rows[k + 1]] - frame_count[kept_rows[k]] <= 15

\* C5 as stated: after the label-0 samples are removed, a second segmentation of the
\* remaining samples has exactly one surviving label
C5_ResegmentSingleLabel ==
    pc = "relabelled" => Len(relabel_id) = 1

\* C5 amended: the second segmentation has exactly one surviving label when no removed
\* break leaves a repeat or a large frame jump between the rows around it
C5_ResegmentSingleLabelIfJoinsClean ==
    (pc = "relabelled" /\ NoBreakAcrossRemovedRows) => relabel_id = <<1>>

\* a break was removed, the rows around it join cleanly, one label survives
C5_Witness ==
    /\ pc = "relabelled"
    /\ Len(kept_rows) < Len(trodes_time)
    /\ \E k \in 1..(Len(kept_rows) - 1) : kept_rows[k + 1] > kept_rows[k] + 1
    /\ NoBreakAcrossRemovedRows
    /\ relabel_id = <<1>>

\* strictly increasing timestamps and a frame counter that advances by 1 except for
\* one single advance of 20, at position j
SingleJumpAt(j) ==
    /\ j \in 2..Len(frame_count)
    /\ \A i \in 2..Len(trodes_time) : trodes_time[i - 1] < trodes_time[i]
    /\ frame_count[j] - frame_count[j - 1] = 20
    /\ \A i \in 2..Len(frame_count) : i # j => frame_count[i] - frame_count[i - 1] = 1

\* C6 as stated: one single 20-frame jump gives exactly two surviving segments and the
\* jump sample is excluded from the table
C6_SingleJumpTwoSegments ==
    \A j \in 2..Len(frame_count) :
        (pc = "filtered" /\ SingleJumpAt(j)) =>
            /\ Len(non_repeat_timestamp_labels_id) = 2
            /\ non_repeat_timestamp_labels[j] = 0
            /\ \A k \in 1..Len(kept_rows) : kept_rows[k] # j

\* C6 amended: one single 20-frame jump gives exactly one surviving segment, every
\* sample has label 1 and no row is excluded from the table
C6_SingleJumpOneSegment ==
    \A j \in 2..Len(frame_count) :
        (pc = "filtered" /\ SingleJumpAt(j)) =>
            /\ non_repeat_timestamp_labels_id = <<1>>
            /\ \A i \in 1..Len(trodes_time) : non_repeat_timestamp_labels[i] = 1
            /\ kept_rows = [k \in 1..Len(trodes_time) |-> k]

\* the scenario with regular samples on both sides of the jump
C6_Witness ==
    /\ pc = "filtered"
    /\ Len(frame_count) >= 5
    /\ \E j \in 3..(Len(frame_count) - 2) : SingleJumpAt(j)
    /\ non_repeat_timestamp_labels_id = <<1>>

-----------------------------------------------------------------------------
(* Pause locator                                                           *)
(*                                                                         *)
(* Times are exact: a time is the integer number of model nanoseconds,     *)
(* with NANOSECONDS_PER_SECOND scaled from 1e9 to 10, so a time in seconds *)
(* is that number over NANOSECONDS_PER_SECOND.  Durations are given in     *)
(* tenths of a second.  Floating-point rounding is not modelled.           *)

\* NANOSECONDS_PER_SECOND (line 16), scaled to keep the numbers small
NANOSECONDS_PER_SECOND == 10

\* durations are counted in units of 1/DurationDen second
DurationDen == 10

\* lines 167-169: (difference / 1e9 > min_duration) & (difference / 1e9 < max_duration)
is_valid_gap(difference, min_d, max_d) ==
    [i \in 1..Len(difference) |->
        /\ difference[i] * DurationDen > min_d * NANOSECONDS_PER_SECOND
        /\ difference[i] * DurationDen < max_d * NANOSECONDS_PER_SECOND]

\* lines 170-177: np.nonzero(is_valid_gap)[0][0] raises IndexError when no gap is valid;
\* otherwise timestamps[start] + (timestamps[start + 1] - timestamps[start]) // 2
PauseMidTime(ts, valid_inds) ==
    IF Len(valid_inds) = 0
    THEN [kind |-> "IndexError", value |-> 0]
    ELSE [kind |-> "value",
          value |-> ts[valid_inds[1]]
                    + ((ts[valid_inds[1] + 1] - ts[valid_inds[1]]) \div 2)]

\* the search not restricted to the first n_search samples
find_acquisition_timing_pause_mut(ts, min_d, max_d, n) ==
    PauseMidTime(ts, np_nonzero(is_valid_gap(np_diff(ts), min_d, max_d)))

\* find_acquisition_timing_pause(timestamps, min_duration, max_duration, n_search)
find_acquisition_timing_pause(ts, min_d, max_d, n) ==
    PauseMidTime(ts, np_nonzero(is_valid_gap(np_diff(Slice(ts, 0, n)), min_d, max_d)))

-----------------------------------------------------------------------------
(* Specification SpecPause: find_acquisition_timing_pause on bounded inputs *)

PauseInit ==
    /\ pc = "start"
    /\ \E n \in 0..MaxPauseLen :
        \E gaps \in [1..(n - 1) -> PauseGaps] :
            timestamps = IF n = 0 THEN <<>> ELSE RunningSum(0, gaps)
    /\ min_duration = 0
    /\ max_duration = 0
    /\ n_search = 0
    /\ pause_mid_time = [kind |-> "none", value |-> 0]
    /\ SegIdle
    /\ LagIdle
    /\ PosIdle
    /\ RestIdle

\* a call of find_acquisition_timing_pause
CallFindAcquisitionTimingPause ==
    /\ pc = "start"
    /\ \E w \in DurationWindows, n \in 0..(MaxPauseLen + 1) :
        /\ min_duration' = w[1]
        /\ max_duration' = w[2]
        /\ n_search' = n
        /\ pause_mid_time' = find_acquisition_timing_pause(timestamps, w[1], w[2], n)
    /\ pc' = "pause_returned"
    /\ UNCHANGED timestamps
    /\ UNCHANGED otherThanPause

PauseNext == CallFindAcquisitionTimingPause

SpecPause == PauseInit /\ [][PauseNext]_vars

-----------------------------------------------------------------------------
(* Claims about the pause locator *)

\* the gap after sample i (1-based) lasts strictly more than min_duration and strictly
\* less than max_duration
GapQualifies(i) ==
    /\ (timestamps[i + 1] - timestamps[i]) * DurationDen > min_duration * NANOSECONDS_PER_SECOND
    /\ (timestamps[i + 1] - timestamps[i]) * DurationDen < max_duration * NANOSECONDS_PER_SECOND

\* the gaps between two of the first n_search samples
GapsInWindow == {i \in 1..(Len(timestamps) - 1) : i + 1 <= n_search}

-----------------------------------------------------------------------------
(* Lag estimate                                                            *)
(*                                                                         *)
(* np.median of an even number of values is the mean of the two middle     *)
(* ones; the lag is kept doubled so that it stays an integer.              *)

\* the k-th smallest element of a (1-based), duplicates counted
KthSmallest(a, k) ==
    CHOOSE v \in {a[i] : i \in 1..Len(a)} :
        /\ Cardinality({i \in 1..Len(a) : a[i] < v}) < k
        /\ k <= Cardinality({i \in 1..Len(a) : a[i] <= v})

\* np.sort(a)
np_sort(a) == [k \in 1..Len(a) |-> KthSmallest(a, k)]

\* twice the middle of a sorted non-empty array
MiddleTwice(sorted) ==
    IF Len(sorted) % 2 = 1
    THEN 2 * sorted[(Len(sorted) + 1) \div 2]
    ELSE sorted[Len(sorted) \div 2] + sorted[(Len(sorted) \div 2) + 1]

\* np.median(a), doubled; nan for an empty array
np_median_twice(a) ==
    IF Len(a) = 0
    THEN [kind |-> "nan", twice |-> 0]
    ELSE [kind |-> "value", twice |-> MiddleTwice(np_sort(a))]

\* np.median(x - y) with numpy's broadcasting of 1-d arrays: equal lengths subtract
\* element by element, an array of one element is stretched, other shapes raise ValueError
MedianOfDifferenceTwice(x, y) ==
    IF Len(x) = Len(y) THEN np_median_twice(np_subtract(x, y))
    ELSE IF Len(y) = 1 THEN np_median_twice([i \in 1..Len(x) |-> x[i] - y[1]])
    ELSE IF Len(x) = 1 THEN np_median_twice([i \in 1..Len(y) |-> x[1] - y[i]])
    ELSE [kind |-> "ValueError", twice |-> 0]

\* line 315: camera_systime[0] - dio_systime[0], IndexError on an empty array
FirstDifferenceTwice(cam, dio) ==
    IF Len(cam) = 0 \/ Len(dio) = 0
    THEN [kind |-> "IndexError", twice |-> 0]
    ELSE [kind |-> "value", twice |-> 2 * (cam[1] - dio[1])]

\* estimate_camera_to_mcu_lag(camera_systime, dio_systime, n_breaks)
estimate_camera_to_mcu_lag(cam, dio, breaks) ==
    IF breaks = 0
    THEN MedianOfDifferenceTwice(cam, Slice(dio, 0, Len(cam)))
    ELSE FirstDifferenceTwice(cam, dio)

-----------------------------------------------------------------------------
(* Specification SpecLag: estimate_camera_to_mcu_lag on bounded non-empty inputs *)

LagInit ==
    /\ pc = "start"
    /\ \E m \in 1..MaxLagLen, d \in 1..MaxLagLen :
        /\ camera_systime \in [1..m -> CameraVals]
        /\ dio_systime \in [1..d -> DioVals]
    /\ n_breaks = 0
    /\ camera_to_mcu_lag = [kind |-> "none", twice |-> 0]
    /\ SegIdle
    /\ PauseIdle
    /\ PosIdle
    /\ RestIdle

\* a call of estimate_camera_to_mcu_lag
CallEstimateCameraToMcuLag ==
    /\ pc = "start"
    /\ \E b \in BreakCounts :
        /\ n_breaks' = b
        /\ camera_to_mcu_lag' = estimate_camera_to_mcu_lag(camera_systime, dio_systime, b)
    /\ pc' = "lag_returned"
    /\ UNCHANGED <<camera_systime, dio_systime>>
    /\ UNCHANGED otherThanLag

LagNext == CallEstimateCameraToMcuLag

SpecLag == LagInit /\ [][LagNext]_vars

-----------------------------------------------------------------------------
(* Claims about the lag estimate *)

\* the shorter of the two lengths
OverlapLen == IF Len(camera_systime) < Len(dio_systime)
              THEN Len(camera_systime) ELSE Len(dio_systime)

\* camera_systime[j] - dio_systime[j] over the overlap
OverlapDifference == [j \in 1..OverlapLen |-> camera_systime[j] - dio_systime[j]]

\* C9: with n_breaks = 0 the result is the median of camera_systime[j] - dio_systime[j]
\* over j < min(len(camera_systime), len(dio_systime)), whichever array is longer; with
\* n_breaks != 0 it is camera_systime[0] - dio_systime[0]
C9_LagIsMedianOverOverlap ==
    pc = "lag_returned" =>
        /\ camera_to_mcu_lag.kind = "value"
        /\ n_breaks = 0 => camera_to_mcu_lag.twice = MiddleTwice(np_sort(OverlapDifference))
        /\ n_breaks # 0 => camera_to_mcu_lag.twice = 2 * (camera_systime[1] - dio_systime[1])

-----------------------------------------------------------------------------
(* get_position_timestamps: the table and its helpers                      *)
(*                                                                         *)
(* A table is the sequence of its rows, a row a record of its columns and  *)
(* of "index".  Times are exact: seconds are counted in model nanoseconds  *)
(* and the floating-point rounding of the source is not represented.       *)

\* np.iinfo(np.uint16).max, the period handed to np.unwrap
UINT16_MAX == 65535

\* the [:100] of the search on the precision-clock path, the default n_search elsewhere
PtpSearchLen == 100
DefaultNSearch == 100
\* the duration windows in tenths of a second: (0.4, 2.0) on the precision-clock path,
\* the defaults (0.4, 1.0) of find_acquisition_timing_pause
PtpMinDuration == 4
PtpMaxDuration == 20
DefaultMinDuration == 4
DefaultMaxDuration == 10

\* column f of table t
Column(t, f) == [i \in 1..Len(t) |-> t[i][f]]

\* table t with column f set to the array col
WithColumn(t, f, col) ==
    [i \in 1..Len(t) |->
        [g \in (DOMAIN t[i]) \cup {f} |-> IF g = f THEN col[i] ELSE t[i][g]]]

\* np.unwrap of integers with an odd integer period: the correction of one difference dd
\* (ddmod - dd, zero where |dd| < period / 2)
UnwrapCorrection(dd, period) ==
    IF 2 * dd < period /\ 2 * dd > -period
    THEN 0
    ELSE (((dd + (period \div 2)) % period) - (period \div 2)) - dd

\* the cumulative sum of the corrections of the first n differences of p
RECURSIVE UnwrapCumSum(_, _, _)
UnwrapCumSum(p, period, n) ==
    IF n = 0 THEN 0
    ELSE UnwrapCumSum(p, period, n - 1) + UnwrapCorrection(p[n + 1] - p[n], period)

\* np.unwrap(p, period=period)
np_unwrap(p, period) == [i \in 1..Len(p) |-> p[i] + UnwrapCumSum(p, period, i - 1)]

\* lines 443-455: the table read from the file, indexed by PosTimestamp, with the
\* unwrapped frame counter and the running frame index
ReadTableWith(data, unwrapped) ==
    [i \in 1..Len(data) |->
        [index |-> data[i].PosTimestamp,
         HWTimestamp |-> data[i].HWTimestamp,
         HWframeCount |-> unwrapped[i],
         video_frame_ind |-> i - 1]]

ReadTable(data) == ReadTableWith(data, np_unwrap(Column(data, "HWframeCount"), UINT16_MAX))

\* the rows of the tracking file with the key of a table row, in file order
RightMatches(key, right) == BoolIndex(right, [k \in 1..Len(right) |-> right[k].time = key])

\* the rows a left join makes of one table row: one per match, or one with an empty
\* position (the empty tuple) when nothing matches
JoinedRows(row, matches) ==
    IF Len(matches) = 0
    THEN WithColumn(<<row>>, "xloc", <<<<>>>>)
    ELSE [k \in 1..Len(matches) |->
             [g \in (DOMAIN row) \cup {"xloc"} |->
                 IF g = "xloc" THEN <<matches[k].xloc>> ELSE row[g]]]

RECURSIVE MergeLeftUpTo(_, _, _)
MergeLeftUpTo(left, right, n) ==
    IF n = 0 THEN <<>>
    ELSE MergeLeftUpTo(left, right, n - 1)
             \o JoinedRows(left[n], RightMatches(left[n].index, right))

\* pd.merge(left, right, left_index=True, right_index=True, how="left")
pd_merge_left(left, right) == MergeLeftUpTo(left, right, Len(left))

\* lines 494-499: the rows indexed by HWTimestamp, the two hardware columns dropped
PtpIndexed(t) ==
    [i \in 1..Len(t) |->
        [g \in (DOMAIN t[i]) \ {"HWframeCount", "HWTimestamp"} |->
            IF g = "index" THEN t[i].HWTimestamp ELSE t[i][g]]]

\* lines 502-508: the gaps of the first 100 index values lasting between 0.4 s and 2.0 s
PtpPauseGaps(index) ==
    np_nonzero(is_valid_gap(np_diff(Slice(index, 0, PtpSearchLen)),
                            PtpMinDuration, PtpMaxDuration))

\* lines 518-533: the located pause, -1 s when the locator raised IndexError
PauseOrSentinel(r) ==
    IF r.kind = "IndexError"
    THEN [kind |-> "value", value |-> (0 - 1) * NANOSECONDS_PER_SECOND]
    ELSE r

\* np.digitize(x, bins) of one value and increasing bins: the number of bins <= x
np_digitize1(x, bins) == Cardinality({k \in 1..Len(bins) : bins[k] <= x})

\* np.digitize(x, bins), 0-based results
np_digitize(x, bins) == [i \in 1..Len(x) |-> np_digitize1(x[i], bins)]

\* np.isin(x, arr)
np_isin(x, arr) == [i \in 1..Len(x) |-> np_isin1(x[i], arr)]

\* arr[positions] with 0-based positions
FancyIndex(arr, positions) == [i \in 1..Len(positions) |-> arr[positions[i] + 1]]

\* is_valid_camera_time[is_valid_camera_time] = mask: the k-th true entry becomes mask[k]
AssignWhereTrue(valid, mask) ==
    [i \in 1..Len(valid) |->
        valid[i] /\ mask[Cardinality({j \in 1..i : valid[j]})]]

\* lines 360-365, keep being the mask taken of camera_systime
RemovePauseWith(dio, fc, camera, valid, pause, keep) ==
    [called |-> TRUE,
     dio_systime |-> BoolIndex(dio, np_greater(dio, pause)),
     frame_count |-> BoolIndex(BoolIndex(fc, valid), keep),
     is_valid_camera_time |-> AssignWhereTrue(valid, keep),
     camera_systime |-> BoolIndex(camera, keep)]

\* the camera times compared with >= in place of >
remove_acquisition_timing_pause_non_ptp_mut(dio, fc, camera, valid, pause) ==
    RemovePauseWith(dio, fc, camera, valid, pause, np_greater(camera, pause - 1))

\* remove_acquisition_timing_pause_non_ptp(dio_systime, frame_count, camera_systime,
\* is_valid_camera_time, pause_mid_time)
remove_acquisition_timing_pause_non_ptp(dio, fc, camera, valid, pause) ==
    RemovePauseWith(dio, fc, camera, valid, pause, np_greater(camera, pause))

-----------------------------------------------------------------------------
(* Per-segment regression and duplicate collapse                           *)
(*                                                                         *)
(* A corrected time is an exact fraction of a doubled time,                *)
(* [kind |-> "value", num, den] in lowest terms with den > 0, or NaN.      *)
(* The fit is computed with the frame counts measured from the first one   *)
(* of the segment, which leaves the fitted values unchanged.               *)

NaN == [kind |-> "nan", num |-> 0, den |-> 1]

Abs(x) == IF x < 0 THEN 0 - x ELSE x

RECURSIVE Gcd(_, _)
Gcd(a, b) == IF b = 0 THEN a ELSE Gcd(b, a % b)

\* the fraction num / (den / 1) divided through by g
Lowest(num, den, g) == [kind |-> "value", num |-> num \div g, den |-> den \div g]

\* num / den in lowest terms, den > 0
Fraction(num, den) == Lowest(num, den, Gcd(Abs(num), den))

\* p < q of two fractions
FractionLess(p, q) == p.num * q.den < q.num * p.den

\* the sum of an array
Sum(a) == SumUpTo(0, a, Len(a))

\* x measured from its first element
FromFirst(x) == [i \in 1..Len(x) |-> x[i] - x[1]]

\* n * sum(x * y) - sum(x) * sum(y)
CrossSum(x, y) == Len(x) * Sum([i \in 1..Len(x) |-> x[i] * y[i]]) - Sum(x) * Sum(y)

\* the fitted value intercept + x[i] * slope of the least-squares line through (x, y)
FittedValue(x, y, i) ==
    Fraction(Sum(y) * CrossSum(x, x) + CrossSum(x, y) * (Len(x) * x[i] - Sum(x)),
             Len(x) * CrossSum(x, x))

\* what linregress(x, y) does with its input: ValueError for empty input and for two
\* or more identical x, a NaN line for a single point, a line otherwise
linregress_kind(x) ==
    IF Len(x) = 0 THEN "ValueError"
    ELSE IF Len(x) = 1 THEN "nan"
    ELSE IF \A i \in 1..Len(x) : x[i] = x[1] THEN "ValueError"
    ELSE "value"

\* regression_result.intercept + frame_count * regression_result.slope
FittedLine(x, y) ==
    IF linregress_kind(x) = "value"
    THEN [i \in 1..Len(x) |-> FittedValue(FromFirst(x), y, i)]
    ELSE [i \in 1..Len(x) |-> NaN]

\* camera_systime - camera_to_mcu_lag, doubled
DoubledLess(camera, lag_twice) == [i \in 1..Len(camera) |-> 2 * camera[i] - lag_twice]

\* correct_timestamps_for_camera_to_mcu_lag(frame_count, camera_systime, camera_to_mcu_lag)
correct_timestamps_for_camera_to_mcu_lag(fc, camera, lag_twice) ==
    FittedLine(fc, DoubledLess(camera, lag_twice))

\* line 565: video_timestamps.non_repeat_timestamp_labels == id
is_chunk(t, id) == [i \in 1..Len(t) |-> t[i].non_repeat_timestamp_labels = id]

\* lines 563-573: the corrected times of the first n ids, concatenated
RECURSIVE CorrectedUpTo(_, _, _, _, _, _)
CorrectedUpTo(t, ids, fc, camera, lag_twice, n) ==
    IF n = 0 THEN <<>>
    ELSE CorrectedUpTo(t, ids, fc, camera, lag_twice, n - 1)
             \o correct_timestamps_for_camera_to_mcu_lag(
                    BoolIndex(fc, is_chunk(t, ids[n])),
                    BoolIndex(camera, is_chunk(t, ids[n])),
                    lag_twice)

\* some segment makes linregress raise
SomeChunkRaises(t, ids, fc) ==
    \E n \in 1..Len(ids) : linregress_kind(BoolIndex(fc, is_chunk(t, ids[n]))) = "ValueError"

\* row i is the first row of its index value, NaN excluded
IsFirstOfKey(t, i) ==
    /\ t[i].index.kind = "value"
    /\ \A j \in 1..(i - 1) : t[j].index # t[i].index

\* the rank of the index value of row i among the distinct index values
KeyRank(t, i) ==
    1 + Cardinality({j \in 1..Len(t) :
                        IsFirstOfKey(t, j) /\ FractionLess(t[j].index, t[i].index)})

\* the first row of the index value of rank k
FirstRowOfRank(t, k) == CHOOSE i \in 1..Len(t) : IsFirstOfKey(t, i) /\ KeyRank(t, i) = k

\* the rows with the index value of row i, in table order
GroupOf(t, i) == BoolIndex(t, [j \in 1..Len(t) |-> t[j].index = t[i].index])

\* the first non-empty entry of a column of optional values, empty when there is none
FirstNotNull(col) ==
    IF \A j \in 1..Len(col) : col[j] = <<>>
    THEN <<>>
    ELSE col[MinOf({j \in 1..Len(col) : col[j] # <<>>})]

\* GroupBy.first() of one group: per column the first value that is not null
FirstOfGroup(rows) ==
    [g \in DOMAIN rows[1] |->
        IF g = "xloc" THEN FirstNotNull(Column(rows, "xloc")) ELSE rows[1][g]]

\* video_timestamps.groupby(video_timestamps.index).first(): one row per distinct index
\* value, in increasing order of the index, rows with a NaN index dropped
groupby_first(t) ==
    [k \in 1..Cardinality({i \in 1..Len(t) : IsFirstOfKey(t, i)}) |->
        FirstOfGroup(GroupOf(t, FirstRowOfRank(t, k)))]

-----------------------------------------------------------------------------
(* Specification SpecPos: get_position_timestamps, statement by statement *)

\* the records of a timestamps file of n records: PosTimestamp advances by steps, the
\* raw 16-bit frame counter by one per record, HWTimestamp by the regular spacing with
\* one longer gap of length g after record p (none when p = 0)
FileRows(n, steps, start, clock, p, g) ==
    [i \in 1..n |->
        [PosTimestamp |-> SumUpTo(0, steps, i - 1),
         HWTimestamp |-> clock[1] + (i - 1) * clock[2]
                             + (IF p > 0 /\ i > p THEN g - clock[2] ELSE 0),
         HWframeCount |-> (start + i - 1) % (UINT16_MAX + 1)]]

\* the records of a tracking file with the given times
TrackingRows(times) == [i \in 1..Len(times) |-> [time |-> times[i], xloc |-> 100 + i]]

TrackingFiles ==
    {[present |-> FALSE, data |-> <<>>]}
        \cup {[present |-> TRUE, data |-> TrackingRows(times)] : times \in TrackingTimes}

PtpInputs ==
    /\ ptp_enabled = TRUE
    /\ \E n \in 0..MaxPosLen :
        \E steps \in [1..(n - 1) -> TrodesSteps], start \in FrameStarts,
           clock \in HwClocks, p \in 0..(IF n = 0 THEN 0 ELSE n - 1),
           g \in HwPauseGaps :
            file_data = FileRows(n, steps, start, clock, p, g)
    /\ rec_dci_timestamps = <<>>
    /\ sample_count = <<>>
    /\ dio_camera_timestamps = <<>>

FallbackInputs ==
    /\ ptp_enabled = FALSE
    /\ \E n \in 0..MaxPosLen :
        \E steps \in [1..(n - 1) -> TrodesSteps], start \in FrameStarts,
           clock \in HwClocks :
            file_data = FileRows(n, steps, start, clock, 0, 0)
    /\ sample_count \in SampleCounts
    /\ \E clock \in RecClocks :
        rec_dci_timestamps =
            [j \in 1..Len(sample_count) |-> clock[1] + clock[2] * sample_count[j]]
    /\ \E m \in 0..MaxDioLen :
        \/ m = 0 /\ dio_camera_timestamps = <<>>
        \/ m > 0 /\ \E start \in DioStarts, gaps \in [1..(m - 1) -> DioGaps] :
                        dio_camera_timestamps = RunningSum(start, gaps)

PosInit ==
    /\ pc = "start"
    /\ (PtpInputs \/ FallbackInputs)
    /\ position_tracking \in TrackingFiles
    /\ video_timestamps = <<>>
    /\ is_valid_camera_time = <<>>
    /\ corrected_camera_systime = <<>>
    /\ raised = NotRaised
    /\ trodes_time = <<>>
    /\ frame_count = <<>>
    /\ min_frame_jump = 0
    /\ is_repeat_timestamp = <<>>
    /\ is_large_frame_jump = <<>>
    /\ non_repeat_timestamp_labels = <<>>
    /\ non_repeat_timestamp_labels_id = <<>>
    /\ kept_rows = <<>>
    /\ relabel_id = <<>>
    /\ PauseIdle
    /\ LagIdle
    /\ RestIdle

\* the call ends with an exception of the given kind raised at the given source line
Raise(kind, line) ==
    /\ pc' = "raised"
    /\ raised' = [kind |-> kind, line |-> line]

\* the call goes on to the next statement
GoTo(next) ==
    /\ pc' = next
    /\ raised' = raised

\* lines 443-455: read the file, unwrap the frame counter, number the frames
ReadVideoTimestamps ==
    /\ pc = "start"
    /\ video_timestamps' = ReadTable(file_data)
    /\ GoTo("read")
    /\ UNCHANGED <<non_repeat_timestamp_labels, non_repeat_timestamp_labels_id,
                   pause_mid_time, frame_count, is_valid_camera_time, camera_systime,
                   dio_camera_timestamps, n_breaks, camera_to_mcu_lag,
                   corrected_camera_systime>>
    /\ UNCHANGED <<posInputs, otherThanPos>>

\* lines 457-468: segment the rows, store the labels as a column (ValueError when their
\* number is not the number of rows) and keep the rows with a positive label
SegmentVideoTimestamps ==
    /\ pc = "read"
    /\ \E r \in {detect_trodes_time_repeats_or_frame_jumps(
                     Column(video_timestamps, "index"),
                     Column(video_timestamps, "HWframeCount"))} :
        /\ non_repeat_timestamp_labels' = r.labels
        /\ non_repeat_timestamp_labels_id' = r.ids
        /\ IF Len(r.labels) = Len(video_timestamps)
           THEN /\ video_timestamps' =
                       BoolIndex(WithColumn(video_timestamps,
                                            "non_repeat_timestamp_labels", r.labels),
                                 np_greater(r.labels, 0))
                /\ GoTo("segmented")
           ELSE /\ video_timestamps' = video_timestamps
                /\ Raise("ValueError", 465)
    /\ UNCHANGED <<pause_mid_time, frame_count, is_valid_camera_time, camera_systime,
                   dio_camera_timestamps, n_breaks, camera_to_mcu_lag,
                   corrected_camera_systime>>
    /\ UNCHANGED <<posInputs, otherThanPos>>

\* lines 470-491: without a tracking file the table is left alone; with one, its
\* repeated times are dropped (IndexError when the mask is longer than the file) and
\* the table is left-joined with it
MergePositionTracking ==
    /\ pc = "segmented"
    /\ IF ~position_tracking.present
       THEN /\ video_timestamps' = video_timestamps
            /\ GoTo("merged")
       ELSE \E mask \in {detect_repeat_timestamps(Column(position_tracking.data, "time"))} :
                IF Len(mask) = Len(position_tracking.data)
                THEN /\ video_timestamps' =
                            pd_merge_left(video_timestamps,
                                          BoolIndex(position_tracking.data,
                                                    np_logical_not(mask)))
                     /\ GoTo("merged")
                ELSE /\ video_timestamps' = video_timestamps
                     /\ Raise("IndexError", 476)
    /\ UNCHANGED <<non_repeat_timestamp_labels, non_repeat_timestamp_labels_id,
                   pause_mid_time, frame_count, is_valid_camera_time, camera_systime,
                   dio_camera_timestamps, n_breaks, camera_to_mcu_lag,
                   corrected_camera_systime>>
    /\ UNCHANGED <<posInputs, otherThanPos>>

\* lines 493-499: on the precision-clock path the table is indexed by HWTimestamp
SetPtpIndex ==
    /\ pc = "merged"
    /\ ptp_enabled
    /\ video_timestamps' = PtpIndexed(video_timestamps)
    /\ GoTo("ptp_indexed")
    /\ UNCHANGED <<non_repeat_timestamp_labels, non_repeat_timestamp_labels_id,
                   pause_mid_time, frame_count, is_valid_camera_time, camera_systime,
                   dio_camera_timestamps, n_breaks, camera_to_mcu_lag,
                   corrected_camera_systime>>
    /\ UNCHANGED <<posInputs, otherThanPos>>

\* lines 501-516: the rows up to the first gap of the duration window are dropped and the
\* table is returned; [0][0] raises IndexError when no gap is in the window
DropBeforePtpPause ==
    /\ pc = "ptp_indexed"
    /\ \E gaps \in {PtpPauseGaps(Column(video_timestamps, "index"))} :
        IF Len(gaps) > 0
        THEN /\ video_timestamps' =
                    Slice(video_timestamps, gaps[1], Len(video_timestamps))
             /\ GoTo("returned")
        ELSE /\ video_timestamps' = video_timestamps
             /\ Raise("IndexError", 508)
    /\ UNCHANGED <<non_repeat_timestamp_labels, non_repeat_timestamp_labels_id,
                   pause_mid_time, frame_count, is_valid_camera_time, camera_systime,
                   dio_camera_timestamps, n_breaks, camera_to_mcu_lag,
                   corrected_camera_systime>>
    /\ UNCHANGED <<posInputs, otherThanPos>>

\* lines 517-533: on the fallback path the pause is located on the DIO ticks; the
\* IndexError of the locator is caught and replaced by -1
LocateDioPause ==
    /\ pc = "merged"
    /\ ~ptp_enabled
    /\ pause_mid_time' =
           PauseOrSentinel(find_acquisition_timing_pause(
               dio_camera_timestamps, DefaultMinDuration, DefaultMaxDuration,
               DefaultNSearch))
    /\ GoTo("pause_located")
    /\ UNCHANGED <<video_timestamps, non_repeat_timestamp_labels,
                   non_repeat_timestamp_labels_id, frame_count, is_valid_camera_time,
                   camera_systime, dio_camera_timestamps, n_breaks, camera_to_mcu_lag,
                   corrected_camera_systime>>
    /\ UNCHANGED <<posInputs, otherThanPos>>

\* lines 535-541: the rows whose index occurs in sample_count are valid and get the
\* reference time at the position np.digitize gives; a position past the end of
\* rec_dci_timestamps raises IndexError
LookUpCameraSystime ==
    /\ pc = "pause_located"
    /\ frame_count' = Column(video_timestamps, "HWframeCount")
    /\ \E valid \in {np_isin(Column(video_timestamps, "index"), sample_count)} :
        /\ is_valid_camera_time' = valid
        /\ \E positions \in {np_digitize(BoolIndex(Column(video_timestamps, "index"), valid),
                                         sample_count)} :
            IF \A i \in 1..Len(positions) : positions[i] < Len(rec_dci_timestamps)
            THEN /\ camera_systime' = FancyIndex(rec_dci_timestamps, positions)
                 /\ GoTo("looked_up")
            ELSE /\ camera_systime' = camera_systime
                 /\ Raise("IndexError", 539)
    /\ UNCHANGED <<video_timestamps, non_repeat_timestamp_labels,
                   non_repeat_timestamp_labels_id, pause_mid_time, dio_camera_timestamps,
                   n_breaks, camera_to_mcu_lag, corrected_camera_systime>>
    /\ UNCHANGED <<posInputs, otherThanPos>>

\* lines 542-554: remove_acquisition_timing_pause_non_ptp and the selection of the rows
\* still valid
RemoveAcquisitionTimingPause ==
    /\ pc = "looked_up"
    /\ \E r \in {remove_acquisition_timing_pause_non_ptp(
                     dio_camera_timestamps, frame_count, camera_systime,
                     is_valid_camera_time, pause_mid_time.value)} :
        /\ dio_camera_timestamps' = r.dio_systime
        /\ frame_count' = r.frame_count
        /\ is_valid_camera_time' = r.is_valid_camera_time
        /\ camera_systime' = r.camera_systime
        /\ video_timestamps' = BoolIndex(video_timestamps, r.is_valid_camera_time)
    /\ GoTo("trimmed")
    /\ UNCHANGED <<non_repeat_timestamp_labels, non_repeat_timestamp_labels_id,
                   pause_mid_time, n_breaks, camera_to_mcu_lag, corrected_camera_systime>>
    /\ UNCHANGED <<posInputs, otherThanPos>>

\* lines 560-562: the lag, estimated with the number of segment ids as n_breaks
EstimateLag ==
    /\ pc = "trimmed"
    /\ n_breaks' = Len(non_repeat_timestamp_labels_id)
    /\ \E lag \in {estimate_camera_to_mcu_lag(camera_systime, dio_camera_timestamps,
                                              Len(non_repeat_timestamp_labels_id))} :
        /\ camera_to_mcu_lag' = lag
        /\ IF lag.kind \in {"IndexError", "ValueError"}
           THEN Raise(lag.kind, IF lag.kind = "IndexError" THEN 315 ELSE 313)
           ELSE GoTo("lag_estimated")
    /\ UNCHANGED <<video_timestamps, non_repeat_timestamp_labels,
                   non_repeat_timestamp_labels_id, pause_mid_time, frame_count,
                   is_valid_camera_time, camera_systime, dio_camera_timestamps,
                   corrected_camera_systime>>
    /\ UNCHANGED <<posInputs, otherThanPos>>

\* lines 563-573: every segment id gets its own regression, all with the one lag;
\* linregress raises ValueError for a segment without rows or with one frame count only
CorrectSegments ==
    /\ pc = "lag_estimated"
    /\ IF SomeChunkRaises(video_timestamps, non_repeat_timestamp_labels_id, frame_count)
       THEN /\ corrected_camera_systime' = corrected_camera_systime
            /\ Raise("ValueError", 371)
       ELSE /\ corrected_camera_systime' =
                   CorrectedUpTo(video_timestamps, non_repeat_timestamp_labels_id,
                                 frame_count, camera_systime, camera_to_mcu_lag.twice,
                                 Len(non_repeat_timestamp_labels_id))
            /\ GoTo("corrected")
    /\ UNCHANGED <<video_timestamps, non_repeat_timestamp_labels,
                   non_repeat_timestamp_labels_id, pause_mid_time, frame_count,
                   is_valid_camera_time, camera_systime, dio_camera_timestamps, n_breaks,
                   camera_to_mcu_lag>>
    /\ UNCHANGED <<posInputs, otherThanPos>>

\* lines 575-580: the corrected times become the index (ValueError when their number is
\* not the number of rows) and the rows of one time are collapsed into the first
IndexAndCollapse ==
    /\ pc = "corrected"
    /\ IF Len(corrected_camera_systime) = Len(video_timestamps)
       THEN /\ video_timestamps' =
                   groupby_first(WithColumn(video_timestamps, "index",
                                            corrected_camera_systime))
            /\ GoTo("returned")
       ELSE /\ video_timestamps' = video_timestamps
            /\ Raise("ValueError", 575)
    /\ UNCHANGED <<non_repeat_timestamp_labels, non_repeat_timestamp_labels_id,
                   pause_mid_time, frame_count, is_valid_camera_time, camera_systime,
                   dio_camera_timestamps, n_breaks, camera_to_mcu_lag,
                   corrected_camera_systime>>
    /\ UNCHANGED <<posInputs, otherThanPos>>

PosNext ==
    \/ ReadVideoTimestamps
    \/ SegmentVideoTimestamps
    \/ MergePositionTracking
    \/ SetPtpIndex
    \/ DropBeforePtpPause
    \/ LocateDioPause
    \/ LookUpCameraSystime
    \/ RemoveAcquisitionTimingPause
    \/ EstimateLag
    \/ CorrectSegments
    \/ IndexAndCollapse

SpecPos == PosInit /\ [][PosNext]_vars

-----------------------------------------------------------------------------
(* Claims about get_position_timestamps *)

\* the gap between rows i and i + 1 of an array of times lasts strictly between lo and
\* hi tenths of a second
GapBetween(times, i, lo, hi) ==
    /\ (times[i + 1] - times[i]) * DurationDen > lo * NANOSECONDS_PER_SECOND
    /\ (times[i + 1] - times[i]) * DurationDen < hi * NANOSECONDS_PER_SECOND

\* no gap among the first 100 values of an array of times qualifies as a pause
NoPauseInWindow(times, lo, hi) ==
    \A i \in 1..(Len(times) - 1) : i + 1 <= 100 => ~GapBetween(times, i, lo, hi)

\* C8: when no gap of the search window qualifies as a timing pause the call does not
\* fail at the search, on the precision-clock path as on the fallback path, and trimming
\* is skipped: no row and no tick is dropped for lying before a pause
C8_PauseNotFoundIsRecoverable ==
    [][/\ (pc = "ptp_indexed"
             /\ NoPauseInWindow(Column(video_timestamps, "index"), 4, 20))
          => (pc' = "returned" /\ video_timestamps' = video_timestamps)
       /\ (pc = "merged" /\ ~ptp_enabled /\ NoPauseInWindow(dio_camera_timestamps, 4, 10))
          => (pc' = "pause_located" /\ pause_mid_time'.value < 0)
       /\ (pc = "looked_up" /\ pause_mid_time.value < 0)
          => /\ pc' = "trimmed"
             /\ dio_camera_timestamps' = dio_camera_timestamps
             /\ camera_systime' = camera_systime]_vars

\* camera_systime[j] - dio_camera_timestamps[j] over the overlap of the two arrays
PosOverlapDifference ==
    [j \in 1..(IF Len(camera_systime) < Len(dio_camera_timestamps)
               THEN Len(camera_systime) ELSE Len(dio_camera_timestamps)) |->
        camera_systime[j] - dio_camera_timestamps[j]]

\* C10: on the fallback path the lag is the median of camera_systime - dio_systime over
\* the overlap when segmentation found exactly one segment, and camera_systime[0] -
\* dio_systime[0] when it found two or more; the one lag is used for every segment
C10_LagPolicyBySegmentCount ==
    /\ pc = "lag_estimated" =>
        /\ Len(non_repeat_timestamp_labels_id) = 1
           => camera_to_mcu_lag.twice = MiddleTwice(np_sort(PosOverlapDifference))
        /\ Len(non_repeat_timestamp_labels_id) >= 2
           => camera_to_mcu_lag.twice = 2 * (camera_systime[1] - dio_camera_timestamps[1])
    /\ pc = "corrected" =>
        \A n \in 1..Len(non_repeat_timestamp_labels_id) :
            BoolIndex(corrected_camera_systime,
                      is_chunk(video_timestamps, non_repeat_timestamp_labels_id[n]))
                = correct_timestamps_for_camera_to_mcu_lag(
                      BoolIndex(frame_count,
                                is_chunk(video_timestamps, non_repeat_timestamp_labels_id[n])),
                      BoolIndex(camera_systime,
                                is_chunk(video_timestamps, non_repeat_timestamp_labels_id[n])),
                      camera_to_mcu_lag.twice)

-----------------------------------------------------------------------------
(* Specification SpecTrim: remove_acquisition_timing_pause_non_ptp on bounded inputs *)

\* the number of true entries of a mask
CountTrue(mask) == Cardinality({i \in 1..Len(mask) : mask[i]})

\* frame counts 5, 10, 15, ... of n samples
TrimFrameCounts(n) == [i \in 1..n |-> 5 * i]

\* is_valid_camera_time of every length up to MaxTrimLen, camera_systime with one value
\* per true entry of it, frame_count with one value per entry of it
TrimInit ==
    /\ pc = "start"
    /\ \E n \in 0..MaxTrimLen :
        /\ is_valid_camera_time \in [1..n -> BOOLEAN]
        /\ frame_count = TrimFrameCounts(n)
    /\ camera_systime \in [1..CountTrue(is_valid_camera_time) -> TrimTimes]
    /\ \E m \in 0..MaxTrimDioLen : dio_systime \in [1..m -> TrimTimes]
    /\ \E t \in TrimPauses : pause_mid_time = [kind |-> "value", value |-> t]
    /\ pause_removed = NothingRemoved
    /\ trodes_time = <<>>
    /\ min_frame_jump = 0
    /\ is_repeat_timestamp = <<>>
    /\ is_large_frame_jump = <<>>
    /\ non_repeat_timestamp_labels = <<>>
    /\ non_repeat_timestamp_labels_id = <<>>
    /\ kept_rows = <<>>
    /\ relabel_id = <<>>
    /\ timestamps = <<>>
    /\ min_duration = 0
    /\ max_duration = 0
    /\ n_search = 0
    /\ n_breaks = 0
    /\ camera_to_mcu_lag = [kind |-> "none", twice |-> 0]
    /\ ptp_enabled = FALSE
    /\ file_data = <<>>
    /\ position_tracking = [present |-> FALSE, data |-> <<>>]
    /\ rec_dci_timestamps = <<>>
    /\ sample_count = <<>>
    /\ dio_camera_timestamps = <<>>
    /\ video_timestamps = <<>>
    /\ corrected_camera_systime = <<>>
    /\ raised = NotRaised
    /\ DioIdle
    /\ AddIdle
    /\ DriverIdle
    /\ ReadIdle
    /\ CreateIdle

\* a call of remove_acquisition_timing_pause_non_ptp; line 362 writes into the mask it was
\* handed, so the caller's is_valid_camera_time changes with it
CallRemoveAcquisitionTimingPause ==
    /\ pc = "start"
    /\ pause_removed' =
           remove_acquisition_timing_pause_non_ptp(
               dio_systime, frame_count, camera_systime, is_valid_camera_time,
               pause_mid_time.value)
    /\ is_valid_camera_time' = pause_removed'.is_valid_camera_time
    /\ pc' = "pause_removed"
    /\ UNCHANGED <<trodes_time, frame_count, min_frame_jump, is_repeat_timestamp,
                   is_large_frame_jump, non_repeat_timestamp_labels,
                   non_repeat_timestamp_labels_id, kept_rows, relabel_id>>
    /\ UNCHANGED <<pauseVars, lagVars>>
    /\ UNCHANGED <<ptp_enabled, file_data, position_tracking, rec_dci_timestamps,
                   sample_count, dio_camera_timestamps, video_timestamps,
                   corrected_camera_systime, raised>>
    /\ UNCHANGED <<dioVars, addVars, driverVars, readVars, createVars>>

TrimNext == CallRemoveAcquisitionTimingPause

SpecTrim == TrimInit /\ [][TrimNext]_vars

-----------------------------------------------------------------------------
(* Claims about remove_acquisition_timing_pause_non_ptp *)

\* the position of the k-th true entry of a mask
KthTrue(mask, k) ==
    CHOOSE i \in 1..Len(mask) : mask[i] /\ Cardinality({j \in 1..i : mask[j]}) = k

\* C11: after the call every retained dio_systime and camera_systime value is strictly
\* greater than pause_mid_time and none that is greater was dropped, the mask keeps its
\* length, len(frame_count) = len(camera_systime) = number of true entries of the mask,
\* and the k-th retained frame_count and camera_systime are those of one original sample
C11_RemovePauseKeepsArraysConsistent ==
    [][(pc = "start" /\ pc' = "pause_removed") =>
        LET out == pause_removed'
            t == pause_mid_time.value
        IN  /\ \A k \in 1..Len(out.dio_systime) : out.dio_systime[k] > t
            /\ \A k \in 1..Len(out.camera_systime) : out.camera_systime[k] > t
            /\ Len(out.dio_systime)
                   = Cardinality({i \in 1..Len(dio_systime) : dio_systime[i] > t})
            /\ Len(out.camera_systime)
                   = Cardinality({i \in 1..Len(camera_systime) : camera_systime[i] > t})
            /\ Len(out.is_valid_camera_time) = Len(is_valid_camera_time)
            /\ Len(out.frame_count) = Len(out.camera_systime)
            /\ Len(out.camera_systime) = CountTrue(out.is_valid_camera_time)
            /\ \A k \in 1..Len(out.camera_systime) :
                   LET i == KthTrue(out.is_valid_camera_time, k)
                   IN  /\ is_valid_camera_time[i]
                       /\ out.frame_count[k] = frame_count[i]
                       /\ out.camera_systime[k] =
                              camera_systime[Cardinality({j \in 1..i :
                                                             is_valid_camera_time[j]})]
       ]_vars

\* a call that drops a camera time equal to pause_mid_time and one below it, keeps a later
\* one, and had an invalid sample among the valid ones
C11_Witness ==
    /\ pc = "pause_removed"
    /\ Len(pause_removed.is_valid_camera_time) = 4
    /\ \E i, j \in 1..Len(camera_systime) :
        /\ camera_systime[i] = pause_mid_time.value
        /\ camera_systime[j] < pause_mid_time.value
    /\ \E i \in 1..Len(dio_systime) : dio_systime[i] = pause_mid_time.value
    /\ Len(pause_removed.camera_systime) = 1
    /\ pause_removed.is_valid_camera_time[4]
    /\ pause_removed.frame_count = <<20>>
    /\ Len(camera_systime) = 3

-----------------------------------------------------------------------------
(* Claims about the duplicate collapse and the returned index *)

\* the table right before the collapse: the rows with their corrected times as index
IndexedByCorrected == WithColumn(video_timestamps, "index", corrected_camera_systime)

\* the first row, in table order, of table t with the index value key
FirstRowWith(t, key) == t[MinOf({i \in 1..Len(t) : t[i].index = key})]

\* C12: the collapse never raises, its output holds one row per corrected time that
\* occurs, and every column of that row is the value of the first row, in original order,
\* with that time, also when that first row has an empty position and a later one has not
C12_CollapseKeepsFirstRow ==
    [][pc = "corrected" =>
        /\ pc' = "returned"
        /\ \A i \in 1..Len(IndexedByCorrected) :
               IndexedByCorrected[i].index.kind = "value" =>
                   Cardinality({k \in 1..Len(video_timestamps') :
                                   video_timestamps'[k].index = IndexedByCorrected[i].index}) = 1
        /\ \A k \in 1..Len(video_timestamps') :
               video_timestamps'[k]
                   = FirstRowWith(IndexedByCorrected, video_timestamps'[k].index)
       ]_vars

\* index value a lies strictly before index value b: corrected times are fractions on the
\* fallback path, HWTimestamp values on the precision-clock path
IndexLess(a, b) == IF ptp_enabled THEN a < b ELSE FractionLess(a, b)

\* C13: on both paths the time index of the returned table is strictly increasing, so it
\* holds no value twice
C13_ReturnedIndexStrictlyIncreasing ==
    pc = "returned" =>
        \A i \in 1..(Len(video_timestamps) - 1) :
            IndexLess(video_timestamps[i].index, video_timestamps[i + 1].index)

\* row r without its position column
WithoutXloc(r) == [g \in (DOMAIN r) \ {"xloc"} |-> r[g]]

\* C15: with a tracking file the joined table has exactly one row per retained timestamp
\* row, in the same order; a row whose index is the time of no tracking record keeps an
\* empty position and every position in the table is that of a tracking record with the
\* row's index as its time
C15_JoinKeepsOneRowPerTimestamp ==
    [][(pc = "segmented" /\ position_tracking.present) =>
        /\ pc' = "merged"
        /\ Len(video_timestamps') = Len(video_timestamps)
        /\ \A i \in 1..Len(video_timestamps') :
            /\ i <= Len(video_timestamps)
            /\ WithoutXloc(video_timestamps'[i]) = video_timestamps[i]
            /\ (\A k \in 1..Len(position_tracking.data) :
                    position_tracking.data[k].time # video_timestamps[i].index)
               => video_timestamps'[i].xloc = <<>>
            /\ video_timestamps'[i].xloc # <<>>
               => \E k \in 1..Len(position_tracking.data) :
                      /\ position_tracking.data[k].time = video_timestamps[i].index
                      /\ video_timestamps'[i].xloc = <<position_tracking.data[k].xloc>>
       ]_vars

-----------------------------------------------------------------------------
(* find_camera_dio_channel_per_epoch                                       *)
(*                                                                         *)
(* A channel name is the sequence of its pieces and "camera ticks" the     *)
(* three pieces "camera", " ", "ticks"; `in` is the search for that        *)
(* contiguous run of pieces.                                               *)

CAMERA_TICKS == <<"camera", " ", "ticks">>

\* np.sum(epoch_ind) must exceed this
MinEpochTicks == 100

\* marker in key
Contains(key, marker) ==
    \E i \in 0..(Len(key) - Len(marker)) : \A j \in 1..Len(marker) : key[i + j] = marker[j]

\* lines 611-615: the registry entries whose name contains the marker, in registry order
dio_camera_list(series) ==
    BoolIndex(series, [k \in 1..Len(series) |-> Contains(series[k].name, CAMERA_TICKS)])

\* lines 626-628: epoch_ind
epoch_ind(ts, start, end) == [i \in 1..Len(ts) |-> ts[i] >= start /\ ts[i] <= end]

\* line 630: dio_camera_timestamps[epoch_ind], the ticks whose epoch_ind is True
InEpoch(ts, start, end) == SelectSeq(ts, LAMBDA t : t >= start /\ t <= end)

\* np.sum of a boolean array
np_sum(mask) == Cardinality({i \in 1..Len(mask) : mask[i]})

\* lines 620-631: the loop over the candidates from candidate k on
RECURSIVE FirstSufficient(_, _, _, _, _)
FirstSufficient(cameras, k, start, end, min_ticks) ==
    IF k > Len(cameras)
    THEN [kind |-> "ValueError",
          message |-> "No camera dio has sufficient ticks for this epoch",
          timestamps |-> <<>>]
    ELSE IF np_sum(epoch_ind(cameras[k].timestamps, start, end)) > min_ticks
    THEN [kind |-> "value", message |-> "",
          timestamps |-> InEpoch(cameras[k].timestamps, start, end)]
    ELSE FirstSufficient(cameras, k + 1, start, end, min_ticks)

\* lines 611-631, with the candidates
FindAmong(cameras, start, end, min_ticks) ==
    IF Len(cameras) = 0
    THEN [kind |-> "ValueError",
          message |-> "No camera dio channel found by name",
          timestamps |-> <<>>]
    ELSE FirstSufficient(cameras, 1, start, end, min_ticks)

\* the test written as >= 100
find_camera_dio_channel_per_epoch_mut(series, start, end) ==
    FindAmong(dio_camera_list(series), start, end, MinEpochTicks - 1)

\* find_camera_dio_channel_per_epoch(nwb_file, epoch_start, epoch_end)
find_camera_dio_channel_per_epoch(series, start, end) ==
    FindAmong(dio_camera_list(series), start, end, MinEpochTicks)

-----------------------------------------------------------------------------
(* Specification SpecDio: find_camera_dio_channel_per_epoch on bounded registries *)

\* the ticks of a channel of n ticks: tick k at time k
Ticks(n) == [k \in 1..n |-> k]

\* a registry of up to MaxChannels channels with distinct names
DioInit ==
    /\ pc = "start"
    /\ \E n \in 0..MaxChannels :
        \E names \in [1..n -> ChannelNames], counts \in [1..n -> TickCounts] :
            /\ \A i, j \in 1..n : names[i] = names[j] => i = j
            /\ time_series = [k \in 1..n |-> [name |-> names[k],
                                               timestamps |-> Ticks(counts[k])]]
    /\ \E b \in EpochBounds :
        /\ epoch_start = b[1]
        /\ epoch_end = b[2]
    /\ dio_found = NothingFound
    /\ SegIdle
    /\ PauseIdle
    /\ LagIdle
    /\ PosIdle
    /\ TrimIdle
    /\ AddIdle
    /\ DriverIdle
    /\ ReadIdle
    /\ CreateIdle

\* a call of find_camera_dio_channel_per_epoch
CallFindCameraDioChannelPerEpoch ==
    /\ pc = "start"
    /\ dio_found' = find_camera_dio_channel_per_epoch(time_series, epoch_start, epoch_end)
    /\ pc' = "dio_returned"
    /\ UNCHANGED <<time_series, epoch_start, epoch_end>>
    /\ UNCHANGED <<segVars, pauseVars, lagVars, posVars, trimVars, addVars, driverVars,
                   readVars, createVars>>

DioNext == CallFindCameraDioChannelPerEpoch

SpecDio == DioInit /\ [][DioNext]_vars

-----------------------------------------------------------------------------
(* Claims about find_camera_dio_channel_per_epoch *)

\* the name of registry entry k contains "camera ticks"
IsCameraChannel(k) ==
    \E i \in 1..(Len(time_series[k].name) - 2) :
        /\ time_series[k].name[i] = "camera"
        /\ time_series[k].name[i + 1] = " "
        /\ time_series[k].name[i + 2] = "ticks"

\* the positions of the ticks of registry entry k inside the epoch bounds, both inclusive
InBounds(k) ==
    {i \in 1..Len(time_series[k].timestamps) :
        epoch_start <= time_series[k].timestamps[i]
            /\ time_series[k].timestamps[i] <= epoch_end}

C18_HundredTicksAreEnough ==
    pc = "dio_returned" =>
        /\ (\E k \in 1..Len(time_series) :
                IsCameraChannel(k) /\ Cardinality(InBounds(k)) >= 100)
           => dio_found.kind = "value"
        /\ \A k \in 1..Len(time_series) :
               (/\ IsCameraChannel(k)
                /\ Cardinality(InBounds(k)) >= 100
                /\ \A j \in 1..(k - 1) :
                       IsCameraChannel(j) => Cardinality(InBounds(j)) < 100)
               => Len(dio_found.timestamps) = Cardinality(InBounds(k))

-----------------------------------------------------------------------------
(* add_position                                                            *)
(*                                                                         *)
(* session_df has one entry per epoch, in the order of                     *)
(* session_df.epoch.unique(): whether the epoch has a .videoPositionTracking *)
(* file, whether it has the .cameraHWSync file of the same video index,    *)
(* and the times of the frames get_position_timestamps returns for that    *)
(* .cameraHWSync file.  A file path is the epoch whose file it is.         *)

LED_POS_NAMES == <<<<"xloc", "yloc">>, <<"xloc2", "yloc2">>>>

\* the columns of the table get_position_timestamps returns without tracking
TimestampColumns ==
    <<"HWframeCount", "HWTimestamp", "video_frame_ind", "non_repeat_timestamp_labels">>

\* the columns the tracking file adds
TrackingColumns == <<"xloc", "yloc", "xloc2", "yloc2">>

None == [kind |-> "None", epoch |-> 0]

FilePath(epoch) == [kind |-> "path", epoch |-> epoch]

\* lines 705-724 run without IndexError: both lists have a first element
BothFilesFound(df, epoch) == df[epoch].tracking /\ df[epoch].hwsync

\* lines 704-727: position_tracking_filepath after the try statement
TrackingFilepathAfterTry(df, epoch) ==
    IF BothFilesFound(df, epoch) THEN FilePath(epoch) ELSE None

\* lines 704-727: position_timestamps_filepath after the try statement; the except
\* clause does not assign it
TimestampsFilepathAfterTry(df, epoch, before) ==
    IF BothFilesFound(df, epoch) THEN FilePath(epoch) ELSE before

\* lines 743-750: the table returned for the two paths; the tracking columns are present
\* when a tracking path is given
get_position_timestamps_table(df, timestamps_path, tracking_path) ==
    [columns |-> IF tracking_path.kind = "path"
                 THEN TimestampColumns \o TrackingColumns
                 ELSE TimestampColumns,
     index |-> df[timestamps_path.epoch].frames,
     video_frame_ind |-> [k \in 1..Len(df[timestamps_path.epoch].frames) |-> k - 1],
     non_repeat_timestamp_labels |->
         [k \in 1..Len(df[timestamps_path.epoch].frames) |-> 1]]

\* lines 758-760: key_set
key_set(columns, valid_keys) ==
    SelectSeq(columns, LAMBDA key : \E i \in 1..Len(valid_keys) : valid_keys[i] = key)

\* lines 757-769: the series of one LED, none when the table has none of its columns
LedSeries(table, led_number, epoch) ==
    IF Len(key_set(table.columns, LED_POS_NAMES[led_number + 1])) > 0
    THEN <<[name |-> [kind |-> "led_series", led |-> led_number, epoch |-> epoch],
            data |-> [k \in 1..Len(table.index) |->
                          key_set(table.columns, LED_POS_NAMES[led_number + 1])],
            timestamps |-> table.index]>>
    ELSE <<>>

\* the name series_{epoch}
SeriesName(epoch) == [kind |-> "series", led |-> 0, epoch |-> epoch]

\* lines 771-778: the series of an epoch without tracking, data = np.asarray([])
EmptySeries(table, epoch) ==
    <<[name |-> SeriesName(epoch), data |-> <<>>, timestamps |-> table.index]>>

\* lines 756-778: what the epoch adds to position
PositionSeries(table, tracking_path, epoch) ==
    IF tracking_path # None
    THEN LedSeries(table, 0, epoch) \o LedSeries(table, 1, epoch)
    ELSE EmptySeries(table, epoch)

\* lines 787-794 and 802-809: a TimeSeries series_{epoch} of one column of the table
ColumnSeries(table, data, epoch) ==
    [name |-> SeriesName(epoch), data |-> data, timestamps |-> table.index]

-----------------------------------------------------------------------------
(* Specification SpecAdd: add_position, one action per block of its loop body *)

\* the times of the n frames of the camera timestamps file of an epoch
FrameTimes(epoch, n) == [k \in 1..n |-> 1000 * epoch + k]

\* the rows of nwb_file.epochs once add_epochs has run: row epoch - 1 is the epoch's
EpochTable(n) == [epoch \in 1..n |-> [start_time |-> epoch, stop_time |-> 100 + epoch]]

\* the DIO registries: none, one or two camera channels, one of them with too few ticks
SessionRegistries ==
    {<<>>}
    \cup {<<[name |-> <<"camera", " ", "ticks">>, timestamps |-> Ticks(c)]>> :
            c \in SessionTickCounts}
    \cup {<<[name |-> <<"camera", " ", "ticks">>, timestamps |-> Ticks(c)],
            [name |-> <<"ECU_", "camera", " ", "ticks", "2">>, timestamps |-> Ticks(d)]>> :
            c \in SessionTickCounts, d \in SessionTickCounts}

AddInit ==
    /\ pc = "start"
    /\ \E n \in 1..MaxEpochs :
        \E tracking \in [1..n -> BOOLEAN], hwsync \in [1..n -> BOOLEAN],
           frames \in [1..n -> FrameCounts], added \in BOOLEAN :
            /\ session_df = [e \in 1..n |-> [epoch |-> e,
                                              tracking |-> tracking[e],
                                              hwsync |-> hwsync[e],
                                              frames |-> IF hwsync[e]
                                                         THEN FrameTimes(e, frames[e])
                                                         ELSE <<>>]]
            /\ nwb_epochs = IF added THEN EpochTable(n) ELSE <<>>
    /\ position_ptp_enabled \in BOOLEAN
    /\ behavioral_events \in SessionRegistries
    /\ position_ptp_enabled => (behavioral_events = <<>> /\ nwb_epochs = <<>>)
    /\ epoch_index = 0
    /\ position_tracking_filepath = Unbound
    /\ position_timestamps_filepath = Unbound
    /\ dio_camera_timestamps_epoch = NothingFound
    /\ position_df = NoTable
    /\ processing = NoSeries
    /\ add_position_raised = NotRaised
    /\ SegIdle
    /\ PauseIdle
    /\ LagIdle
    /\ PosIdle
    /\ TrimIdle
    /\ DioIdle
    /\ DriverIdle
    /\ ReadIdle
    /\ CreateIdle

\* add_position ends with an exception
AddRaise(kind, line) ==
    /\ pc' = "raised"
    /\ add_position_raised' = [kind |-> kind, line |-> line]

\* add_position goes on
AddGoTo(next) ==
    /\ pc' = next
    /\ add_position_raised' = add_position_raised

addInputs == <<session_df, nwb_epochs, behavioral_events, position_ptp_enabled>>
otherThanAdd == <<segVars, pauseVars, lagVars, posVars, trimVars, dioVars, driverVars,
                  readVars, createVars>>

\* lines 688-701: the non-ptp path needs the epochs table
CheckEpochs ==
    /\ pc = "start"
    /\ IF ~position_ptp_enabled /\ Len(nwb_epochs) = 0
       THEN AddRaise("ValueError", 697)
       ELSE AddGoTo("for")
    /\ UNCHANGED <<epoch_index, position_tracking_filepath, position_timestamps_filepath,
                   dio_camera_timestamps_epoch, position_df, processing>>
    /\ UNCHANGED <<addInputs, otherThanAdd>>

\* line 703: the next epoch of the loop
NextEpoch ==
    /\ pc = "for"
    /\ epoch_index < Len(session_df)
    /\ epoch_index' = epoch_index + 1
    /\ AddGoTo("try")
    /\ UNCHANGED <<position_tracking_filepath, position_timestamps_filepath,
                   dio_camera_timestamps_epoch, position_df, processing>>
    /\ UNCHANGED <<addInputs, otherThanAdd>>

\* lines 704-731: the files of the epoch, then the log of both paths; reading a local
\* that was never assigned raises UnboundLocalError
FindEpochFiles ==
    /\ pc = "try"
    /\ position_tracking_filepath' = TrackingFilepathAfterTry(session_df, epoch_index)
    /\ position_timestamps_filepath' =
           TimestampsFilepathAfterTry(session_df, epoch_index, position_timestamps_filepath)
    /\ IF position_timestamps_filepath' = Unbound
       THEN AddRaise("UnboundLocalError", 730)
       ELSE AddGoTo("files_found")
    /\ UNCHANGED <<epoch_index, dio_camera_timestamps_epoch, position_df, processing>>
    /\ UNCHANGED <<addInputs, otherThanAdd>>

\* lines 734-741: the camera ticks of the epoch on the non-ptp path
RestrictDioToEpoch ==
    /\ pc = "files_found"
    /\ dio_camera_timestamps_epoch' =
           IF position_ptp_enabled
           THEN NothingFound
           ELSE find_camera_dio_channel_per_epoch(behavioral_events,
                                                  nwb_epochs[epoch_index].start_time,
                                                  nwb_epochs[epoch_index].stop_time)
    /\ IF dio_camera_timestamps_epoch'.kind = "ValueError"
       THEN AddRaise("ValueError", 737)
       ELSE AddGoTo("dio_restricted")
    /\ UNCHANGED <<epoch_index, position_tracking_filepath, position_timestamps_filepath,
                   position_df, processing>>
    /\ UNCHANGED <<addInputs, otherThanAdd>>

\* lines 743-750
GetPositionTimestamps ==
    /\ pc = "dio_restricted"
    /\ position_df' = get_position_timestamps_table(session_df, position_timestamps_filepath,
                                                    position_tracking_filepath)
    /\ AddGoTo("timestamps_read")
    /\ UNCHANGED <<epoch_index, position_tracking_filepath, position_timestamps_filepath,
                   dio_camera_timestamps_epoch, processing>>
    /\ UNCHANGED <<addInputs, otherThanAdd>>

\* the module is made on every epoch
CreateModuleIfMissing_mut(created, name) ==
    Append(created, name)

\* lines 781-785 and 796-800: create_processing_module unless the name is in
\* nwb_file.processing
CreateModuleIfMissing(created, name) ==
    IF \E i \in 1..Len(created) : created[i] = name
    THEN created
    ELSE Append(created, name)

\* lines 753-809: the position series, the frame index series and the label series
WriteEpochSeries ==
    /\ pc = "timestamps_read"
    /\ processing' =
           [processing EXCEPT
               !.created = CreateModuleIfMissing(
                               CreateModuleIfMissing(@, "position_frame_index"),
                               "non_repeat_timestamp_labels"),
               !.position = @ \o PositionSeries(position_df, position_tracking_filepath,
                                                epoch_index),
               !.position_frame_index =
                   Append(@, ColumnSeries(position_df, position_df.video_frame_ind,
                                          epoch_index)),
               !.non_repeat_timestamp_labels =
                   Append(@, ColumnSeries(position_df,
                                          position_df.non_repeat_timestamp_labels,
                                          epoch_index))]
    /\ AddGoTo("for")
    /\ UNCHANGED <<epoch_index, position_tracking_filepath, position_timestamps_filepath,
                   dio_camera_timestamps_epoch, position_df>>
    /\ UNCHANGED <<addInputs, otherThanAdd>>

\* line 811: after the last epoch position is added to the behavior module
AddPositionToBehavior ==
    /\ pc = "for"
    /\ epoch_index = Len(session_df)
    /\ processing' = [processing EXCEPT !.behavior = Append(@, processing.position)]
    /\ AddGoTo("done")
    /\ UNCHANGED <<epoch_index, position_tracking_filepath, position_timestamps_filepath,
                   dio_camera_timestamps_epoch, position_df>>
    /\ UNCHANGED <<addInputs, otherThanAdd>>

AddNext ==
    \/ CheckEpochs
    \/ NextEpoch
    \/ FindEpochFiles
    \/ RestrictDioToEpoch
    \/ GetPositionTimestamps
    \/ WriteEpochSeries
    \/ AddPositionToBehavior

SpecAdd == AddInit /\ [][AddNext]_vars

-----------------------------------------------------------------------------
(* Claims about add_position *)

\* the loop body of epoch e has run to its end
EpochWritten(e) ==
    \/ e < epoch_index
    \/ e = epoch_index /\ pc \in {"for", "done"}

\* the series of epoch e in one processing module
SeriesOf(module, e) == {i \in 1..Len(module) : module[i].name.epoch = e}

\* C14: an epoch with a camera timestamps file and no tracking file, the first one
\* included, does not make add_position fail, and gets an empty position series and a
\* frame index series whose timestamps are the frames of that epoch's timestamps file
C14_NoTrackingEpochUsesItsTimestampsFile ==
    \A e \in 1..Len(session_df) :
        (session_df[e].hwsync /\ ~session_df[e].tracking) =>
            /\ (pc = "raised" /\ epoch_index = e) => add_position_raised.line # 730
            /\ EpochWritten(e) =>
                /\ \E i \in SeriesOf(processing.position, e) :
                       /\ processing.position[i].name = SeriesName(e)
                       /\ processing.position[i].data = <<>>
                       /\ processing.position[i].timestamps = session_df[e].frames
                /\ \E i \in SeriesOf(processing.position_frame_index, e) :
                       /\ processing.position_frame_index[i].timestamps
                              = session_df[e].frames
                       /\ Len(processing.position_frame_index[i].data)
                              = Len(session_df[e].frames)

\* channel k of the registry is a camera channel with more than 100 ticks inside the
\* bounds of the epoch the loop is at
EnoughTicksInEpoch(k) ==
    /\ \E i \in 1..(Len(behavioral_events[k].name) - 2) :
           /\ behavioral_events[k].name[i] = "camera"
           /\ behavioral_events[k].name[i + 1] = " "
           /\ behavioral_events[k].name[i + 2] = "ticks"
    /\ Cardinality({i \in 1..Len(behavioral_events[k].timestamps) :
           /\ nwb_epochs[epoch_index].start_time <= behavioral_events[k].timestamps[i]
           /\ behavioral_events[k].timestamps[i] <= nwb_epochs[epoch_index].stop_time})
       > 100

\* C16: on the non-precision path, when more than one channel name contains
\* "camera ticks" and each has enough ticks inside the epoch bounds, add_position fails
\* instead of choosing one of the channels
C16_AmbiguousCameraChannelsAreFatal ==
    [][(/\ pc = "files_found"
        /\ ~position_ptp_enabled
        /\ \E j, k \in 1..Len(behavioral_events) :
               j # k /\ EnoughTicksInEpoch(j) /\ EnoughTicksInEpoch(k))
       => pc' = "raised"]_vars

\* C19: the position series, the frame index series and the label series of every epoch
\* written, with or without tracking, have one time index and as many data rows as
\* that index has entries
C19_EpochSeriesShareIndexAndLength ==
    \A e \in 1..Len(session_df) :
        EpochWritten(e) =>
            \A i \in SeriesOf(processing.position_frame_index, e) :
                /\ Len(processing.position_frame_index[i].data)
                       = Len(processing.position_frame_index[i].timestamps)
                /\ \A j \in SeriesOf(processing.non_repeat_timestamp_labels, e) :
                       /\ processing.non_repeat_timestamp_labels[j].timestamps
                              = processing.position_frame_index[i].timestamps
                       /\ Len(processing.non_repeat_timestamp_labels[j].data)
                              = Len(processing.position_frame_index[i].timestamps)
                /\ \A j \in SeriesOf(processing.position, e) :
                       /\ processing.position[j].timestamps
                              = processing.position_frame_index[i].timestamps
                       /\ Len(processing.position[j].data)
                              = Len(processing.position_frame_index[i].timestamps)

-----------------------------------------------------------------------------
(* Specification SpecDriver: create_nwbs over the sessions of file_info     *)
(*                                                                         *)
(* _create_nwb is one step per session that returns or raises an Exception. *)
(* With n_workers > 1 the sessions are tasks of the dask client and run in  *)
(* any order; the results are read in the order of the sessions.           *)

DriverInit ==
    /\ pc = "start"
    /\ n_workers \in 1..MaxWorkers
    /\ \E n \in 0..MaxSessions :
        /\ session_raises \in [1..n -> BOOLEAN]
        /\ conversions = [i \in 1..n |-> "not run"]
    /\ next_session = 1
    /\ printed = {}
    /\ create_nwbs_raised = NotRaised
    /\ SegIdle
    /\ PauseIdle
    /\ LagIdle
    /\ PosIdle
    /\ TrimIdle
    /\ DioIdle
    /\ AddIdle
    /\ ReadIdle
    /\ CreateIdle

otherThanDriver == <<segVars, pauseVars, lagVars, posVars, trimVars, dioVars, addVars,
                     readVars, createVars>>

\* convert.py line 151: the branch on n_workers; lines 170-173 hand every session to
\* the client
ChooseBranch ==
    /\ pc = "start"
    /\ pc' = IF n_workers > 1 THEN "map" ELSE "serial"
    /\ UNCHANGED <<n_workers, session_raises, conversions, next_session, printed,
                   create_nwbs_raised>>
    /\ UNCHANGED otherThanDriver

\* convert.py lines 153-168: pass_func on one session, on some worker; an Exception is
\* caught, printed and returned
PassFunc ==
    /\ pc = "map"
    /\ \E i \in 1..Len(conversions) :
        /\ conversions[i] = "not run"
        /\ conversions' = [conversions EXCEPT
                              ![i] = IF session_raises[i] THEN "Exception" ELSE "True"]
        /\ printed' = IF session_raises[i] THEN printed \cup {i} ELSE printed
    /\ UNCHANGED <<pc, n_workers, session_raises, next_session, create_nwbs_raised>>
    /\ UNCHANGED otherThanDriver

\* convert.py lines 175-178: future.result() of the next session, printed when it is
\* not True
ReadResult ==
    /\ pc = "map"
    /\ next_session <= Len(conversions)
    /\ conversions[next_session] # "not run"
    /\ printed' = IF conversions[next_session] # "True"
                  THEN printed \cup {next_session}
                  ELSE printed
    /\ next_session' = next_session + 1
    /\ UNCHANGED <<pc, n_workers, session_raises, conversions, create_nwbs_raised>>
    /\ UNCHANGED otherThanDriver

\* convert.py lines 180-190: the loop of the else branch calls _create_nwb directly; an
\* exception leaves create_nwbs
SerialCreateNwb ==
    /\ pc = "serial"
    /\ next_session <= Len(conversions)
    /\ IF session_raises[next_session]
       THEN /\ pc' = "raised"
            /\ create_nwbs_raised' = [kind |-> "Exception", line |-> 182]
            /\ conversions' = [conversions EXCEPT ![next_session] = "Exception"]
            /\ next_session' = next_session
       ELSE /\ pc' = pc
            /\ create_nwbs_raised' = create_nwbs_raised
            /\ conversions' = [conversions EXCEPT ![next_session] = "True"]
            /\ next_session' = next_session + 1
    /\ UNCHANGED <<n_workers, session_raises, printed>>
    /\ UNCHANGED otherThanDriver

\* create_nwbs returns after the last session
ReturnFromCreateNwbs ==
    /\ pc \in {"map", "serial"}
    /\ next_session = Len(conversions) + 1
    /\ pc' = "done"
    /\ UNCHANGED <<n_workers, session_raises, conversions, next_session, printed,
                   create_nwbs_raised>>
    /\ UNCHANGED otherThanDriver

DriverNext ==
    \/ ChooseBranch
    \/ PassFunc
    \/ ReadResult
    \/ SerialCreateNwb
    \/ ReturnFromCreateNwbs

SpecDriver == DriverInit /\ [][DriverNext]_vars

-----------------------------------------------------------------------------
(* Claims about create_nwbs *)

\* C20: for every n_workers >= 1 and every list of sessions, a session whose conversion
\* raises does not end create_nwbs: the exception is caught and the conversion of every
\* other session still runs
C20_SessionFailureIsIsolated ==
    /\ pc # "raised"
    /\ pc = "done" => \A i \in 1..Len(conversions) : conversions[i] # "not run"

-----------------------------------------------------------------------------
(* Further claims about get_position_timestamps (specification SpecPos) *)

\* the positions i, among the first 100 values of an array of times, of the gaps between
\* values i and i + 1 that last strictly between lo and hi tenths of a second
QualifyingGaps(times, lo, hi) ==
    {i \in 1..(Len(times) - 1) : i + 1 <= 100 /\ GapBetween(times, i, lo, hi)}

\* C21: on the precision-clock path the pause is the first gap, among the first 100
\* samples, lasting strictly between 0.4 s and 1.0 s; exactly the samples at or before it
\* are dropped, and a gap between 1.0 s and 2.0 s is not taken for the pause: no sample
\* is dropped because of it
C21_PtpPauseWithinOneSecond ==
    [][pc = "ptp_indexed" =>
        LET index == Column(video_timestamps, "index")
            gaps == QualifyingGaps(index, 4, 10)
        IN  IF gaps = {}
            THEN pc' = "returned" => video_timestamps' = video_timestamps
            ELSE /\ pc' = "returned"
                 /\ \E i \in gaps :
                        /\ \A j \in gaps : i <= j
                        /\ video_timestamps' =
                               [k \in 1..(Len(video_timestamps) - i) |->
                                   video_timestamps[i + k]]]_vars

\* the rows of table t folded into an earlier row of the same time by the collapse
MergedRows(t) ==
    {i \in 1..Len(t) : t[i].index.kind = "value" /\ \E j \in 1..(i - 1) : t[j].index = t[i].index}

\* the frame records that break detection gave label 0
ExcludedSamples == {i \in 1..Len(non_repeat_timestamp_labels) : non_repeat_timestamp_labels[i] = 0}

\* C22: on the fallback path the concatenated corrected times have one value per row of
\* the table they are assigned to, and the returned table has as many rows as the file
\* has frame records, less the samples with label 0, less the rows merged by the collapse
C22_RowCountRoundTrip ==
    [][pc = "corrected" =>
        /\ Len(corrected_camera_systime) = Len(video_timestamps)
        /\ Len(video_timestamps') = Len(file_data) - Cardinality(ExcludedSamples)
                                        - Cardinality(MergedRows(IndexedByCorrected))
       ]_vars

\* C23: the frame counter is recorded as a 16-bit value that wraps from 65535 to 0; the
\* unwrapped HWframeCount never decreases and the difference of two consecutive records
\* is the true frame increment, also across a wraparound
C23_UnwrapRestoresFrameIncrements ==
    pc = "read" =>
        \A i \in 1..(Len(file_data) - 1) :
            /\ video_timestamps[i + 1].HWframeCount >= video_timestamps[i].HWframeCount
            /\ video_timestamps[i + 1].HWframeCount - video_timestamps[i].HWframeCount
                   = (file_data[i + 1].HWframeCount - file_data[i].HWframeCount)
                         % (UINT16_MAX + 1)

\* the rows of the table whose index occurs in sample_count, in table order
ValidRows == {i \in 1..Len(video_timestamps) :
                 \E j \in 1..Len(sample_count) : sample_count[j] = video_timestamps[i].index}

\* C26: on the fallback path a camera sample is valid iff its index occurs in
\* sample_count, the camera system time of a valid sample whose index is sample_count[j]
\* is rec_dci_timestamps[j], and the lookup never reads past the end of
\* rec_dci_timestamps, also for the last value of sample_count
C26_LookupTakesTheSamplesOwnTime ==
    /\ ~(pc = "raised" /\ raised.line = 539)
    /\ pc = "looked_up" =>
        /\ is_valid_camera_time = [i \in 1..Len(video_timestamps) |-> i \in ValidRows]
        /\ Len(camera_systime) = Cardinality(ValidRows)
        /\ \A i \in ValidRows :
               \A j \in 1..Len(sample_count) :
                   sample_count[j] = video_timestamps[i].index
                       => camera_systime[Cardinality({h \in ValidRows : h <= i})]
                              = rec_dci_timestamps[j]

\* the rows of the table with segment label id, in table order
RowsOfSegment(id) ==
    {i \in 1..Len(video_timestamps) : video_timestamps[i].non_repeat_timestamp_labels = id}

\* the segment has two or more rows that all carry one frame count
HasOneFrameCountOnly(id) ==
    /\ Cardinality(RowsOfSegment(id)) >= 2
    /\ \A i, j \in RowsOfSegment(id) : frame_count[i] = frame_count[j]

\* C27: on the fallback path the segment labels of the rows left after filtering are
\* non-decreasing in row order, and the concatenated corrected times give row i the time
\* computed from row i's own frame count within its segment; a surviving segment left
\* with zero rows or with a single row does not keep the call from returning a table
C27_CorrectedTimesAlignWithRows ==
    [][pc = "lag_estimated" =>
        /\ \A i \in 1..(Len(video_timestamps) - 1) :
               video_timestamps[i].non_repeat_timestamp_labels
                   <= video_timestamps[i + 1].non_repeat_timestamp_labels
        /\ (\A n \in 1..Len(non_repeat_timestamp_labels_id) :
                ~HasOneFrameCountOnly(non_repeat_timestamp_labels_id[n]))
           => pc' = "corrected"
        /\ pc' = "corrected" =>
               /\ Len(corrected_camera_systime') = Len(video_timestamps)
               /\ \A i \in 1..Len(video_timestamps) :
                      LET id == video_timestamps[i].non_repeat_timestamp_labels
                          k == Cardinality({h \in RowsOfSegment(id) : h <= i})
                      IN  corrected_camera_systime'[i]
                              = correct_timestamps_for_camera_to_mcu_lag(
                                    BoolIndex(frame_count, is_chunk(video_timestamps, id)),
                                    BoolIndex(camera_systime, is_chunk(video_timestamps, id)),
                                    camera_to_mcu_lag.twice)[k]
       ]_vars

-----------------------------------------------------------------------------
(* Further claims about add_position (specification SpecAdd) *)

\* C24: the timestamps file and the tracking file handed to get_position_timestamps for
\* an epoch are files of that epoch; nothing assigned in an earlier epoch is used when a
\* later epoch has no tracking file or no matching timestamps file
C24_EpochFilesAreTheEpochsOwn ==
    pc = "dio_restricted" =>
        /\ position_timestamps_filepath = FilePath(epoch_index)
        /\ position_tracking_filepath \in {None, FilePath(epoch_index)}

-----------------------------------------------------------------------------
(* parse_dtype and read_trodes_datafile                                    *)
(*                                                                         *)
(* A text is the sequence of its pieces.  The fields setting is the        *)
(* sequence of its fields <name type>, the type text split at "*" as       *)
(* re.split does.  np is the set of the attribute names it has: numeric    *)
(* types, types that are not numeric, and attributes that are no types.    *)

NumericTypes == {"uint8", "uint32", "int32", "float32", "float64"}
OtherTypes == {"str_", "object_"}
NotTypes == {"sum", "pi"}

\* getattr(np, ftype) finds an attribute
hasattr_np(ftype) == ftype \in NumericTypes \cup OtherTypes \cup NotTypes

\* str.isdigit() of the pieces that occur
isdigit(text) == text \in {"1", "2", "4"}

\* int(text) of a text of digits
int(text) == CASE text = "1" -> 1 [] text = "2" -> 2 [] text = "4" -> 4

\* line 62: temptypes[temptypes[0].isdigit()]
ftype_of(temptypes) == IF isdigit(temptypes[1]) THEN temptypes[2] ELSE temptypes[1]

\* line 63: temptypes[temptypes[1].isdigit()], the text handed to int()
repeats_text(temptypes) == IF isdigit(temptypes[2]) THEN temptypes[2] ELSE temptypes[1]

\* lines 59-65: ftype of a field
FieldType(type) == IF Len(type) >= 2 THEN ftype_of(type) ELSE type[1]

\* lines 56-63: repeats of a field whose count, if any, is a text of digits
FieldRepeats(type) == IF Len(type) >= 2 THEN int(repeats_text(type)) ELSE 1

\* line 73: np.dtype(typearr) raises TypeError for an entry that is no data type
np_dtype(typearr) ==
    IF \E k \in 1..Len(typearr) : typearr[k][2] \in NotTypes
    THEN [kind |-> "TypeError", dtype |-> <<>>]
    ELSE [kind |-> "value", dtype |-> typearr]

\* lines 54-73: the loop over the fields from field k on, then np.dtype
RECURSIVE ParseFrom(_, _, _)
ParseFrom(fields, k, typearr) ==
    IF k > Len(fields)
    THEN np_dtype(typearr)
    ELSE IF Len(fields[k].type) >= 2 /\ ~isdigit(repeats_text(fields[k].type))
    THEN [kind |-> "ValueError", dtype |-> <<>>]
    ELSE IF ~hasattr_np(FieldType(fields[k].type))
    THEN [kind |-> "AttributeError", dtype |-> <<>>]
    ELSE ParseFrom(fields, k + 1,
                   Append(typearr, <<fields[k].name, FieldType(fields[k].type),
                                     FieldRepeats(fields[k].type)>>))

\* parse_dtype(fieldstr)
parse_dtype(fields) == ParseFrom(fields, 1, <<>>)

IsWhitespace(piece) == piece \in {" ", "\n", "\r", "\t"}

RECURSIVE lstrip(_)
lstrip(line) ==
    IF Len(line) > 0 /\ IsWhitespace(line[1]) THEN lstrip(Tail(line)) ELSE line

RECURSIVE rstrip(_)
rstrip(line) ==
    IF Len(line) > 0 /\ IsWhitespace(line[Len(line)])
    THEN rstrip(SubSeq(line, 1, Len(line) - 1))
    ELSE line

\* str.strip()
strip(line) == rstrip(lstrip(line))

START_SETTINGS == <<"<Start settings>">>

\* read_trodes_datafile(filename): Exception("Settings format not supported") for
\* another first line; the data read as float64 without a fields setting (KeyError
\* caught), with the parsed dtype otherwise, an exception of parse_dtype leaving the call
read_trodes_datafile(file) ==
    IF strip(file.first_line) # START_SETTINGS
    THEN [kind |-> "Exception", dtype |-> <<>>]
    ELSE IF ~file.has_fields
    THEN [kind |-> "value", dtype |-> <<<<"", "float64", 1>>>>]
    ELSE parse_dtype(file.fields)

-----------------------------------------------------------------------------
(* Specification SpecRead: parse_dtype and read_trodes_datafile on bounded files *)

\* the fields field1, field2, ... with the given type texts
FieldsOf(types) ==
    [k \in 1..Len(types) |->
        [name |-> IF k = 1 THEN "field1" ELSE "field2", type |-> types[k]]]

ReadInit ==
    /\ pc = "start"
    /\ \E line \in FirstLines, has \in BOOLEAN, n \in 0..MaxFields :
        \E types \in [1..n -> TypeTexts] :
            /\ ~has => n = 0
            /\ trodes_file = [first_line |-> line, has_fields |-> has,
                              fields |-> FieldsOf(types)]
    /\ parsed_dtype = NotCalled
    /\ datafile = NotCalled
    /\ SegIdle
    /\ PauseIdle
    /\ LagIdle
    /\ PosIdle
    /\ TrimIdle
    /\ DioIdle
    /\ AddIdle
    /\ DriverIdle
    /\ CreateIdle

otherThanRead == <<segVars, pauseVars, lagVars, posVars, trimVars, dioVars, addVars,
                   driverVars, createVars>>

\* a call of parse_dtype on the fields setting of the file
CallParseDtype ==
    /\ pc = "start"
    /\ trodes_file.has_fields
    /\ parsed_dtype' = parse_dtype(trodes_file.fields)
    /\ pc' = "dtype_parsed"
    /\ UNCHANGED <<trodes_file, datafile>>
    /\ UNCHANGED otherThanRead

\* a call of read_trodes_datafile on the file
CallReadTrodesDatafile ==
    /\ pc = "start"
    /\ datafile' = read_trodes_datafile(trodes_file)
    /\ pc' = "datafile_read"
    /\ UNCHANGED <<trodes_file, parsed_dtype>>
    /\ UNCHANGED otherThanRead

ReadNext == CallParseDtype \/ CallReadTrodesDatafile

SpecRead == ReadInit /\ [][ReadNext]_vars

-----------------------------------------------------------------------------
(* Claims about parse_dtype and read_trodes_datafile *)

\* the first line of the file without the blanks and line ends around it
FirstLineText ==
    SelectSeq(trodes_file.first_line, LAMBDA piece : piece \notin {" ", "\n", "\r", "\t"})

\* field k is written as name type, name N*type or name type*N
IsWellFormed(k) ==
    \/ Len(trodes_file.fields[k].type) = 1
    \/ /\ Len(trodes_file.fields[k].type) = 2
       /\ \E c \in {1, 2} :
              /\ trodes_file.fields[k].type[c] \in {"1", "2", "4"}
              /\ trodes_file.fields[k].type[3 - c] \notin {"1", "2", "4"}

\* the type name of a well-formed field k: the piece that is not the count
TypeName(k) ==
    IF Len(trodes_file.fields[k].type) = 1 THEN trodes_file.fields[k].type[1]
    ELSE IF trodes_file.fields[k].type[1] \in {"1", "2", "4"}
    THEN trodes_file.fields[k].type[2]
    ELSE trodes_file.fields[k].type[1]

\* C25: read_trodes_datafile raises "Settings format not supported" whenever the first
\* line is not "<Start settings>", and parse_dtype raises AttributeError whenever the
\* type name of some field, written as name type, name N*type or name type*N, is not the
\* name of a numeric type; no partial result is returned
C25_MalformedInputRaises ==
    /\ (pc = "datafile_read" /\ FirstLineText # <<"<Start settings>">>)
       => (datafile.kind = "Exception" /\ datafile.dtype = <<>>)
    /\ (/\ pc = "dtype_parsed"
        /\ \A k \in 1..Len(trodes_file.fields) : IsWellFormed(k)
        /\ \E k \in 1..Len(trodes_file.fields) :
               TypeName(k) \notin {"uint8", "uint32", "int32", "float32", "float64"})
       => (parsed_dtype.kind = "AttributeError" /\ parsed_dtype.dtype = <<>>)

-----------------------------------------------------------------------------
(* _create_nwb and setup_logger (convert.py), specification SpecCreate:    *)
(* _create_nwb is called for n_sessions sessions one after another in one  *)
(* process, by a caller that goes on to the next session when a call has   *)
(* raised (pass_func in a worker, lines 154-169).  A step that is a call   *)
(* into another module either returns or raises.                           *)

MaxCreateSessions == 3

\* len(metadata_filepaths) at line 224
MetadataFileCounts == {0, 1, 2}

\* the file written before add_position is called
CreateSteps_mut ==
    << [name |-> "_get_file_paths", info |-> <<207>>],
       [name |-> "RecFileDataChunkIterator", info |-> <<209, 211>>],
       [name |-> "read_header", info |-> <<>>],
       [name |-> "metadata_filepaths", info |-> <<>>],
       [name |-> "load_metadata", info |-> <<232>>],
       [name |-> "hardware_maps", info |-> <<238>>],
       [name |-> "initialize_nwb", info |-> <<250>>],
       [name |-> "add_metadata_entries", info |-> <<>>],
       [name |-> "add_raw_ephys", info |-> <<266>>],
       [name |-> "add_dios", info |-> <<277>>],
       [name |-> "add_analog_data", info |-> <<279>>],
       [name |-> "add_sample_count", info |-> <<281>>],
       [name |-> "add_epochs", info |-> <<283>>],
       [name |-> "write", info |-> <<311>>],
       [name |-> "add_position", info |-> <<289>>] >>

\* the statements of _create_nwb after setup_logger, in the order of the source;
\* info: the lines of the logger.info calls made just before the statement
CreateSteps ==
    << [name |-> "_get_file_paths", info |-> <<207>>],
       [name |-> "RecFileDataChunkIterator", info |-> <<209, 211>>],
       [name |-> "read_header", info |-> <<>>],
       [name |-> "metadata_filepaths", info |-> <<>>],
       [name |-> "load_metadata", info |-> <<232>>],
       [name |-> "hardware_maps", info |-> <<238>>],
       [name |-> "initialize_nwb", info |-> <<250>>],
       [name |-> "add_metadata_entries", info |-> <<>>],
       [name |-> "add_raw_ephys", info |-> <<266>>],
       [name |-> "add_dios", info |-> <<277>>],
       [name |-> "add_analog_data", info |-> <<279>>],
       [name |-> "add_sample_count", info |-> <<281>>],
       [name |-> "add_epochs", info |-> <<283>>],
       [name |-> "add_position", info |-> <<289>>],
       [name |-> "write", info |-> <<311>>] >>

\* logging.FileHandler(path_logfile, mode="w"); the path is that of the session's log
FileHandler(session) == [kind |-> "file", path |-> session]

\* logging.StreamHandler()
StreamHandler == [kind |-> "stream", path |-> 0]

\* setup_logger: the handlers of the logger named name_logfile after the call
setup_logger(handlers, session) ==
    Append(Append(handlers, FileHandler(session)), StreamHandler)

\* number of handlers of the logger that write to the target
HandlersOn(handlers, target) ==
    Cardinality({i \in DOMAIN handlers : handlers[i] = target})

RECURSIVE Repeat(_, _)
Repeat(line, n) == IF n = 0 THEN <<>> ELSE <<line>> \o Repeat(line, n - 1)

\* what a target with n handlers receives for the records of the session
RECURSIVE Emitted(_, _, _)
Emitted(session, infos, n) ==
    IF infos = <<>> THEN <<>>
    ELSE Repeat(<<session, Head(infos)>>, n) \o Emitted(session, Tail(infos), n)

\* logger.info / logger.exception: every handler of the logger emits the record
LogToFiles(files, handlers, session, infos) ==
    [f \in DOMAIN files |->
        files[f] \o Emitted(session, infos, HandlersOn(handlers, FileHandler(f)))]

LogToStderr(lines, handlers, session, infos) ==
    lines \o Emitted(session, infos, HandlersOn(handlers, StreamHandler))

CreateInit ==
    /\ pc = "start"
    /\ n_sessions \in 1..MaxCreateSessions
    /\ create_session = 0
    /\ create_step = 0
    /\ nwb_file = <<>>
    /\ logger_handlers = <<>>
    /\ log_files = [s \in 1..n_sessions |-> <<>>]
    /\ stderr = <<>>
    /\ output_files = [s \in 1..n_sessions |-> "none"]
    /\ create_outcome = [s \in 1..n_sessions |-> "not run"]
    /\ SegIdle
    /\ PauseIdle
    /\ LagIdle
    /\ PosIdle
    /\ TrimIdle
    /\ DioIdle
    /\ AddIdle
    /\ DriverIdle
    /\ ReadIdle

otherThanCreate == <<segVars, pauseVars, lagVars, posVars, trimVars, dioVars, addVars,
                     driverVars, readVars>>

\* the step _create_nwb is at
ThisStep == CreateSteps[create_step]

\* the logger.info calls before the step
LogInfos(infos) ==
    /\ log_files' = LogToFiles(log_files, logger_handlers, create_session, infos)
    /\ stderr' = LogToStderr(stderr, logger_handlers, create_session, infos)

\* the step returns
StepReturns ==
    /\ nwb_file' = Append(nwb_file, ThisStep.name)
    /\ create_step' = create_step + 1
    /\ pc' = "in_create_nwb"
    /\ UNCHANGED create_outcome

\* the step raises: there is no try statement around it, _create_nwb ends
StepRaises ==
    /\ create_outcome' = [create_outcome EXCEPT ![create_session] = ThisStep.name]
    /\ pc' = "start"
    /\ UNCHANGED <<nwb_file, create_step>>

\* line 205: the call of _create_nwb for the next session starts with setup_logger;
\* the file handler opens the session's log with mode "w"
EnterCreateNwb ==
    /\ pc = "start"
    /\ create_session < n_sessions
    /\ create_session' = create_session + 1
    /\ logger_handlers' = setup_logger(logger_handlers, create_session + 1)
    /\ log_files' = [log_files EXCEPT ![create_session + 1] = <<>>]
    /\ nwb_file' = <<>>
    /\ create_step' = 1
    /\ pc' = "in_create_nwb"
    /\ UNCHANGED <<n_sessions, stderr, output_files, create_outcome>>
    /\ UNCHANGED otherThanCreate

\* lines 207-221, 232-288: a call into another module, after the logger.info calls
\* that precede it
RunStep ==
    /\ pc = "in_create_nwb"
    /\ create_step <= Len(CreateSteps)
    /\ ThisStep.name \notin {"metadata_filepaths", "add_position", "write"}
    /\ LogInfos(ThisStep.info)
    /\ StepReturns \/ StepRaises
    /\ UNCHANGED <<n_sessions, create_session, logger_handlers, output_files>>
    /\ UNCHANGED otherThanCreate

\* lines 223-231: exactly one metadata file, or ValueError after logger.exception
CheckMetadataFiles ==
    /\ pc = "in_create_nwb"
    /\ create_step <= Len(CreateSteps)
    /\ ThisStep.name = "metadata_filepaths"
    /\ \E n \in MetadataFileCounts :
        \/ n # 1 /\ LogInfos(<<228>>) /\ StepRaises
        \/ n = 1 /\ LogInfos(<<>>) /\ StepReturns
    /\ UNCHANGED <<n_sessions, create_session, logger_handlers, output_files>>
    /\ UNCHANGED otherThanCreate

\* lines 289-308: detect_ptp_from_header, then add_position with or without the
\* arguments of the fallback path
CallAddPosition ==
    /\ pc = "in_create_nwb"
    /\ create_step <= Len(CreateSteps)
    /\ ThisStep.name = "add_position"
    /\ LogInfos(ThisStep.info)
    /\ StepReturns \/ StepRaises
    /\ UNCHANGED <<n_sessions, create_session, logger_handlers, output_files>>
    /\ UNCHANGED otherThanCreate

\* lines 311-313: NWBHDF5IO(..., "w") creates the file and io.write fills it; a raise
\* of the constructor leaves no file, a raise of io.write an incomplete one
WriteFile ==
    /\ pc = "in_create_nwb"
    /\ create_step <= Len(CreateSteps)
    /\ ThisStep.name = "write"
    /\ LogInfos(ThisStep.info)
    /\ \/ /\ StepReturns
          /\ output_files' = [output_files EXCEPT ![create_session] = "written"]
       \/ /\ StepRaises
          /\ \E left \in {"none", "incomplete"} :
                output_files' = [output_files EXCEPT ![create_session] = left]
    /\ UNCHANGED <<n_sessions, create_session, logger_handlers>>
    /\ UNCHANGED otherThanCreate

\* line 315: "DONE", and _create_nwb returns
ReturnFromCreateNwb ==
    /\ pc = "in_create_nwb"
    /\ create_step = Len(CreateSteps) + 1
    /\ LogInfos(<<315>>)
    /\ create_outcome' = [create_outcome EXCEPT ![create_session] = "returned"]
    /\ pc' = "start"
    /\ UNCHANGED <<n_sessions, create_session, create_step, nwb_file, logger_handlers,
                   output_files>>
    /\ UNCHANGED otherThanCreate

CreateNext ==
    \/ EnterCreateNwb
    \/ RunStep
    \/ CheckMetadataFiles
    \/ CallAddPosition
    \/ WriteFile
    \/ ReturnFromCreateNwb

SpecCreate == CreateInit /\ [][CreateNext]_vars

-----------------------------------------------------------------------------
(* Claims about _create_nwb (specification SpecCreate) *)

\* the handlers of the logger that write to a file
FileHandlers == {i \in DOMAIN logger_handlers : logger_handlers[i].kind = "file"}

\* C28: once _create_nwb has been entered, for the first session or a later one,
\* the "convert" logger holds exactly one file handler and one stream handler,
\* every line of a session's log file is a message of that session, and no
\* message is written twice to the console
C28_LoggerHoldsOneHandlerOfEachKind ==
    create_session >= 1 =>
        /\ Cardinality(FileHandlers) = 1
        /\ HandlersOn(logger_handlers, StreamHandler) = 1
        /\ \A f \in DOMAIN log_files :
            \A i \in DOMAIN log_files[f] : log_files[f][i][1] = f
        /\ \A i, j \in DOMAIN stderr : stderr[i] = stderr[j] => i = j

\* the steps that have returned in the running call
StepsDone == {nwb_file[i] : i \in DOMAIN nwb_file}

\* the sessions whose call has raised
RaisedSessions ==
    {s \in DOMAIN create_outcome : create_outcome[s] \notin {"not run", "returned"}}

\* C29: when add_position is called, add_dios, add_sample_count and add_epochs
\* have returned; the session's output file exists only once add_position has
\* returned; a session whose call raised has no written output file, and no
\* output file at all unless the raising step is the write itself
C29_PositionAfterItsInputsAndWriteLast ==
    /\ (/\ pc = "in_create_nwb"
        /\ create_step <= Len(CreateSteps)
        /\ ThisStep.name = "add_position")
            => {"add_dios", "add_sample_count", "add_epochs"} \subseteq StepsDone
    /\ (create_session >= 1 /\ output_files[create_session] # "none")
            => "add_position" \in StepsDone
    /\ \A s \in RaisedSessions :
        /\ output_files[s] # "written"
        /\ create_outcome[s] # "write" => output_files[s] = "none"

\* a session whose add_position raised has no file, the next one has been written
C29_Witness ==
    /\ create_session = 2
    /\ create_outcome[1] = "add_position"
    /\ output_files[1] = "none"
    /\ output_files[2] = "written"
    /\ "add_position" \in StepsDone

-----------------------------------------------------------------------------
(* A further claim about add_position (specification SpecAdd) *)

\* number of create_processing_module calls made for the module
TimesCreated(name) ==
    Cardinality({i \in 1..Len(processing.created) : processing.created[i] = name})

\* the module holds one series per epoch of the session, named series_<epoch>
HoldsOneSeriesPerEpoch(module) ==
    /\ Len(module) = Len(session_df)
    /\ \A e \in 1..Len(session_df) :
        /\ Cardinality(SeriesOf(module, e)) = 1
        /\ \A i \in SeriesOf(module, e) : module[i].name = SeriesName(e)

\* C30: no module is ever created twice and position is not added to behavior
\* before the loop has ended; when add_position has returned, each of the
\* modules position_frame_index and non_repeat_timestamp_labels has been created
\* exactly once and holds exactly one series series_<epoch> per epoch, and
\* position has been added to behavior exactly once
C30_ModulesCreatedOnceOneSeriesPerEpoch ==
    /\ TimesCreated("position_frame_index") <= 1
    /\ TimesCreated("non_repeat_timestamp_labels") <= 1
    /\ pc # "done" => processing.behavior = <<>>
    /\ pc = "done" =>
        /\ TimesCreated("position_frame_index") = 1
        /\ TimesCreated("non_repeat_timestamp_labels") = 1
        /\ HoldsOneSeriesPerEpoch(processing.position_frame_index)
        /\ HoldsOneSeriesPerEpoch(processing.non_repeat_timestamp_labels)
        /\ Len(processing.behavior) = 1
        /\ processing.behavior[1] = processing.position

\* add_position has returned for a session of two epochs
C30_Witness ==
    /\ pc = "done"
    /\ Len(session_df) = 2
    /\ add_position_raised = NotRaised

====
